---- MODULE Spec2Model ----
(***************************************************************************)
(* Persistent log store and power-state controller of the splint          *)
(* adherence sensor node, watchdog-reset variant (src/unnamed/part_002).  *)
(*                                                                         *)
(* Flash is modelled as NOR flash: an erase sets every bit of a page, a   *)
(* program can only clear bits (the new content is the bitwise AND of the *)
(* old content and the data).  Every erase and program may fail.          *)
(***************************************************************************)
EXTENDS Integers, Sequences, FiniteSets, TLC

(***************************************************************************)
(* Bounds (scaled-down sizes)                                              *)
(***************************************************************************)
\* MAX_DATA_ENTRIES (15000 in the source): slots scanned by findHighestDataIndex
MAX_DATA_ENTRIES == 3
\* FLASH_PAGE_SIZE / sizeof(TemperatureData) (512 in the source)
SlotsPerPage == 2
\* record slots between DATA_START_ADDRESS and the end of the flash device
FlashDataSlots == 5

(***************************************************************************)
(* Program constants                                                       *)
(***************************************************************************)
MODE_IDLE == 0
MODE_LOGGING == 1
DEFAULT_WAKEUP_INTERVAL == 300
\* sizeof(config.personalId)
ID_SIZE == 16

(***************************************************************************)
(* 32-bit words.  A uint32_t (and the bit pattern of a float) is the pair  *)
(* << high half, low half >> of its 16-bit halves, so that all 32 bits are *)
(* kept and every intermediate value stays a small integer.                *)
(***************************************************************************)
Half == 2^16

W(n) == << n \div Half, n % Half >>
\* the value of a word below 2^31
WNat(w) == w[1] * Half + w[2]

\* bitwise AND of two naturals
RECURSIVE BitAnd(_, _)
BitAnd(a, b) ==
    IF a = 0 \/ b = 0 THEN 0
    ELSE 2 * BitAnd(a \div 2, b \div 2) + (IF a % 2 = 1 /\ b % 2 = 1 THEN 1 ELSE 0)

WAnd(a, b) == << BitAnd(a[1], b[1]), BitAnd(a[2], b[2]) >>
WLess(a, b) == a[1] < b[1] \/ (a[1] = b[1] /\ a[2] < b[2])
WGeq(a, b) == ~WLess(a, b)
\* a + b modulo 2^32
WAdd(a, b) ==
    << (a[1] + b[1] + ((a[2] + b[2]) \div Half)) % Half, (a[2] + b[2]) % Half >>
WInc(a) == WAdd(a, << 0, 1 >>)
\* x * y modulo 2^16, for 16-bit x and y
MulMod16(x, y) == (x * (y % 256) + ((x * (y \div 256)) % 256) * 256) % Half
\* the high half of the 32-bit product x * y of 16-bit x and y
MulHigh16(x, y) ==
    LET t == x * (y \div 256)
        u == x * (y % 256)
    IN  (t \div 256 + ((t % 256) * 256 + u) \div Half) % Half
\* a * b modulo 2^32
WMul(a, b) ==
    << (MulHigh16(a[2], b[2]) + MulMod16(a[1], b[2]) + MulMod16(a[2], b[1])) % Half,
       MulMod16(a[2], b[2]) >>

\* the four bytes of a uint32_t in memory order (little endian)
Bytes32(w) == << w[2] % 256, w[2] \div 256, w[1] % 256, w[1] \div 256 >>

RECURSIVE SumSeq(_)
SumSeq(s) == IF s = << >> THEN 0 ELSE Head(s) + SumSeq(Tail(s))

\* a 32-bit word of erased flash (all bits set)
ERASED32 == << 65535, 65535 >>
\* 0xDEADBEEF
RESET_FLAG_VALUE == << 57005, 48879 >>

\* IEEE-754 single precision bit patterns: 20.0f, 200.0f, -100.0f
F_20 == << 16800, 0 >>
F_200 == << 17224, 0 >>
F_Minus100 == << 49864, 0 >>
\* the pattern of +infinity: every larger magnitude is a NaN
F_Inf == << 32640, 0 >>

FSign(b) == b[1] \div 32768
FMag(b) == << b[1] % 32768, b[2] >>
FIsNaN(b) == WLess(F_Inf, FMag(b))
\* f > -100 on the bit pattern of f
FGtMinus100(b) == ~FIsNaN(b) /\ (FSign(b) = 0 \/ WLess(FMag(b), FMag(F_Minus100)))
\* f < 200 on the bit pattern of f
FLt200(b) == ~FIsNaN(b) /\ (FSign(b) = 1 \/ WLess(FMag(b), F_200))

\* a range test with >= and <=
ValidTemperatureInclusive(b) ==
    (FGtMinus100(b) /\ FLt200(b)) \/ b = F_200 \/ b = F_Minus100

\* the plausibility test of findHighestDataIndex on a stored temperature
ValidTemperature(b) == FGtMinus100(b) /\ FLt200(b)

(***************************************************************************)
(* Records                                                                 *)
(***************************************************************************)
\* a char[16] holding s, the rest zero
Pad(s) == s \o [i \in 1..(ID_SIZE - Len(s)) |-> 0]
\* "DEFAULT_ID"
DefaultId == Pad(<< 68, 69, 70, 65, 85, 76, 84, 95, 73, 68 >>)
\* "DEV1"
Dev1Id == Pad(<< 68, 69, 86, 49 >>)
ErasedId == [i \in 1..ID_SIZE |-> 255]

\* struct ConfigData and its initializer
DefaultConfig ==
    [initialTimestamp |-> W(0), wakeupInterval |-> W(DEFAULT_WAKEUP_INTERVAL),
     personalId |-> DefaultId, mode |-> W(MODE_IDLE)]
\* what a read of the erased config page yields
ErasedConfig ==
    [initialTimestamp |-> ERASED32, wakeupInterval |-> ERASED32,
     personalId |-> ErasedId, mode |-> ERASED32]
\* what a read of an erased data slot yields (struct TemperatureData)
ErasedSlot == [index |-> ERASED32, temperature |-> ERASED32]

Slots == 0..(FlashDataSlots - 1)
NoSlot == 0 - 1

\* memset(0) + strncpy(dst, src, 15) + dst[15] = 0
StrnCopy(src) ==
    [i \in 1..ID_SIZE |->
        IF i < ID_SIZE /\ (\A j \in 1..i : src[j] # 0) THEN src[i] ELSE 0]

(***************************************************************************)
(* Initialization packet (struct InitializationData) and its checksum      *)
(***************************************************************************)
\* the bytes of the packet that the checksum covers (all but the last 4)
PayloadBytes(p) == Bytes32(p.timestamp) \o Bytes32(p.wakeupInterval) \o p.personalId
\* a checksum accumulated in a uint8_t
CalculatedChecksumMod256(p) == W(SumSeq(PayloadBytes(p)) % 256)

\* a checksum loop that stops one byte early
CalculatedChecksumShort(p) ==
    W(SumSeq(SubSeq(PayloadBytes(p), 1, Len(PayloadBytes(p)) - 1)))

\* a sum of 24 bytes never reaches 2^32: the & 0xFFFFFFFF changes nothing
CalculatedChecksum(p) == W(SumSeq(PayloadBytes(p)))
ChecksumOk(p) == CalculatedChecksum(p) = p.checksum

MkPacket(ts, iv, id, delta) ==
    LET q == [timestamp |-> W(ts), wakeupInterval |-> W(iv), personalId |-> id,
              checksum |-> W(0)]
    IN  [q EXCEPT !.checksum = WAdd(CalculatedChecksum(q), W(delta))]

\* the packets a host sends: a configured one, the all-zero one, a corrupted one
Packets ==
    { MkPacket(1700000000, 300, Dev1Id, 0),
      MkPacket(0, 0, Pad(<< >>), 0),
      MkPacket(1700000000, 300, Dev1Id, 1) }

\* the readings the sensor driver hands to saveTemperatureReading
Temperatures == { F_20, F_200 }

(***************************************************************************)
(* State                                                                   *)
(***************************************************************************)
VARIABLES
    pc,           \* "reset" | "main" | "sleep_entry" | "sleep" | "init_erase" | "off"
    flashConfig,  \* the ConfigData stored at CONFIG_ADDRESS
    flashData,    \* the TemperatureData slots from DATA_START_ADDRESS on
    wdtFlag,      \* the word stored at WDT_RESET_FLAG_ADDRESS
    resetDog,     \* the DOG bit of NRF_POWER->RESETREAS
    config,       \* the in-memory ConfigData
    currentIndex, \* the in-memory write index
    currentMode,  \* the in-memory operation mode
    initPacket,   \* the packet initializeDevice is working on, or NoPacket
    initPage,     \* the loop variable page of initializeDevice
    reply,        \* the lines written to the serial link by the last command
    progSlot,     \* history: the slot the last step programmed, or NoSlot
    written,      \* history: the slots programmed since the last initialization
    appends,      \* history: successful appends since the data region was erased
    implausible,  \* history: one of these appends stored a value the scan rejects
    resetFrom,    \* history: where the program was when the last reset struck
    lastBoot      \* history: the branch the last run of setup() took

vars == << pc, flashConfig, flashData, wdtFlag, resetDog, config, currentIndex,
           currentMode, initPacket, initPage, reply, progSlot, written, appends,
           implausible, resetFrom, lastBoot >>

NoPacket == << >>
\* appends counts exactly below AppendsCap and stays there once it reaches it
AppendsCap == MAX_DATA_ENTRIES + 2

(***************************************************************************)
(* Flash primitives                                                        *)
(***************************************************************************)
SaveOutcomes == { "ok", "erase_fail", "program_fail" }

\* the config page after saveConfig() ends with outcome o
SaveConfigFlash(old, cfg, o) ==
    CASE o = "erase_fail" -> old
      [] o = "program_fail" -> ErasedConfig
      [] OTHER -> cfg
\* the return value of saveConfig()
SaveConfigResult(o) == o = "ok"

\* flash.program of a record onto a slot: bits can only be cleared
ProgramSlot(old, rec) ==
    [index |-> WAnd(old.index, rec.index),
     temperature |-> WAnd(old.temperature, rec.temperature)]

\* the address sanity check of saveTemperatureReading
AddressInFlash(idx) == idx >= 0 /\ idx + 1 <= FlashDataSlots

\* a pagesNeeded that rounds down
PagesNeededFloor == MAX_DATA_ENTRIES \div SlotsPerPage

\* pagesNeeded of initializeDevice (ceiling division)
PagesNeeded == (MAX_DATA_ENTRIES + SlotsPerPage - 1) \div SlotsPerPage
PageOf(slot) == slot \div SlotsPerPage

(***************************************************************************)
(* findHighestDataIndex                                                    *)
(***************************************************************************)
\* a scan that counts a record only when its index exceeds the running
\* maximum (> where findHighestDataIndex has >=)
RECURSIVE ScanFromAbove(_, _, _)
ScanFromAbove(data, i, highestIndex) ==
    IF i >= MAX_DATA_ENTRIES THEN highestIndex
    ELSE ScanFromAbove(data, i + 1,
            IF ValidTemperature(data[i].temperature) /\ WLess(highestIndex, data[i].index)
            THEN WInc(data[i].index)
            ELSE highestIndex)

RECURSIVE ScanFrom(_, _, _)
ScanFrom(data, i, highestIndex) ==
    IF i >= MAX_DATA_ENTRIES THEN highestIndex
    ELSE ScanFrom(data, i + 1,
            IF ValidTemperature(data[i].temperature) /\ WGeq(data[i].index, highestIndex)
            THEN WInc(data[i].index)
            ELSE highestIndex)

findHighestDataIndex(data) == WNat(ScanFrom(data, 0, W(0)))

(***************************************************************************)
(* Initial state: a device whose flash was never written, powered on       *)
(***************************************************************************)
Init ==
    /\ pc = "reset"
    /\ flashConfig = ErasedConfig
    /\ flashData = [s \in Slots |-> ErasedSlot]
    /\ wdtFlag = ERASED32
    /\ resetDog = FALSE
    /\ config = DefaultConfig
    /\ currentIndex = 0
    /\ currentMode = W(MODE_IDLE)
    /\ initPacket = NoPacket
    /\ initPage = 0
    /\ reply = << >>
    /\ progSlot = NoSlot
    /\ written = {}
    /\ appends = 0
    /\ implausible = FALSE
    /\ resetFrom = "off"
    /\ lastBoot = "none"

\* the outcomes of flash operations: with faults an erase or a program may fail
Bools(faults) == IF faults THEN BOOLEAN ELSE { TRUE }
Outcomes(faults) == IF faults THEN SaveOutcomes ELSE { "ok" }

(***************************************************************************)
(* setup()                                                                 *)
(***************************************************************************)
\* a wasPlannedReset that trusts the reset cause alone
WasPlannedResetDogOnly(isWatchdogReset, resetFlag) == isWatchdogReset

\* a wasPlannedReset that trusts the stored flag alone
WasPlannedResetFlagOnly(isWatchdogReset, resetFlag) == resetFlag = RESET_FLAG_VALUE

\* wasPlannedReset of setup
WasPlannedReset(isWatchdogReset, resetFlag) ==
    isWatchdogReset /\ resetFlag = RESET_FLAG_VALUE

\* a "Mode Switch Case" without its LOGGING to IDLE branch
SetupModeKeepsLogging(mode, index, wasPlannedReset) ==
    IF mode = W(MODE_IDLE) /\ index = 0 THEN W(MODE_LOGGING) ELSE mode

\* the mode setup leaves in config.mode ("Mode Switch Case")
SetupMode(mode, index, wasPlannedReset) ==
    IF mode = W(MODE_IDLE) /\ index = 0 THEN W(MODE_LOGGING)
    ELSE IF mode = W(MODE_LOGGING) /\ ~wasPlannedReset THEN W(MODE_IDLE)
    ELSE mode

\* the branch of the "Mode Switch Case" setup takes
BootBranch(mode, index, wasPlannedReset) ==
    IF mode = W(MODE_IDLE) /\ index = 0 THEN "idle_to_logging"
    ELSE IF mode = W(MODE_LOGGING) /\ ~wasPlannedReset THEN "logging_to_idle"
    ELSE IF mode = W(MODE_LOGGING) THEN "planned"
    ELSE "kept"

\* setup() when flash.init() fails: fall back to command mode and return
BootInitFailed(o) ==
    /\ currentMode' = W(MODE_IDLE)
    /\ flashConfig' = SaveConfigFlash(flashConfig, config, o)
    /\ lastBoot' = "init_failed"
    /\ UNCHANGED << flashData, wdtFlag, resetDog, config, currentIndex >>

\* a setup() that reads the reset flag and never erases it
BootInitOkKeepsFlag(flagEraseOk, o) ==
    LET wasPlannedReset == WasPlannedReset(resetDog, wdtFlag)
        loaded == flashConfig
        index == findHighestDataIndex(flashData)
        newMode == SetupMode(loaded.mode, index, wasPlannedReset)
    IN  /\ resetDog' = FALSE
        /\ wdtFlag' = wdtFlag
        /\ currentIndex' = index
        /\ config' = [loaded EXCEPT !.mode = newMode]
        /\ flashConfig' = IF newMode # loaded.mode
                          THEN SaveConfigFlash(flashConfig, config', o)
                          ELSE flashConfig
        /\ currentMode' = newMode
        /\ lastBoot' = BootBranch(loaded.mode, index, wasPlannedReset)
        /\ UNCHANGED flashData

\* setup() when flash.init() succeeds
BootInitOk(flagEraseOk, o) ==
    LET wasPlannedReset == WasPlannedReset(resetDog, wdtFlag)
        loaded == flashConfig
        index == findHighestDataIndex(flashData)
        newMode == SetupMode(loaded.mode, index, wasPlannedReset)
    IN  /\ resetDog' = FALSE
        /\ wdtFlag' = IF wdtFlag = RESET_FLAG_VALUE /\ flagEraseOk
                      THEN ERASED32 ELSE wdtFlag
        /\ currentIndex' = index
        /\ config' = [loaded EXCEPT !.mode = newMode]
        /\ flashConfig' = IF newMode # loaded.mode
                          THEN SaveConfigFlash(flashConfig, config', o)
                          ELSE flashConfig
        /\ currentMode' = newMode
        /\ lastBoot' = BootBranch(loaded.mode, index, wasPlannedReset)
        /\ UNCHANGED flashData

Boot(faults) ==
    /\ pc = "reset"
    /\ \E initOk \in Bools(faults), flagEraseOk \in Bools(faults), o \in Outcomes(faults) :
          IF initOk THEN BootInitOk(flagEraseOk, o) ELSE BootInitFailed(o)
    /\ pc' = "main"
    /\ reply' = << >>
    /\ progSlot' = NoSlot
    /\ UNCHANGED << initPacket, initPage, written, appends, implausible, resetFrom >>

(***************************************************************************)
(* main(): MODE_LOGGING branch                                             *)
(***************************************************************************)
\* a saveTemperatureReading that increments currentIndex before it programs
LogReadingCountsFailure(faults) ==
    /\ pc = "main"
    /\ currentMode = W(MODE_LOGGING)
    /\ currentIndex' = currentIndex + 1
    /\ \E temperature \in Temperatures, programOk \in Bools(faults), o \in Outcomes(faults) :
          IF AddressInFlash(currentIndex) /\ programOk
          THEN /\ flashData' = [flashData EXCEPT ![currentIndex] =
                       ProgramSlot(@, [index |-> W(currentIndex),
                                       temperature |-> temperature])]
               /\ progSlot' = currentIndex
               /\ written' = written \cup {currentIndex}
               /\ appends' = IF appends < AppendsCap THEN appends + 1 ELSE appends
               /\ implausible' = (implausible \/ ~ValidTemperature(temperature))
               /\ pc' = "sleep_entry"
               /\ UNCHANGED << flashConfig, config, currentMode >>
          ELSE /\ currentMode' = W(MODE_IDLE)
               /\ config' = [config EXCEPT !.mode = W(MODE_IDLE)]
               /\ flashConfig' = SaveConfigFlash(flashConfig, config', o)
               /\ progSlot' = NoSlot
               /\ pc' = "main"
               /\ UNCHANGED << flashData, written, appends, implausible >>
    /\ reply' = << >>
    /\ UNCHANGED << wdtFlag, resetDog, initPacket, initPage, resetFrom, lastBoot >>

\* saveTemperatureReading(temperature); main() falls back to MODE_IDLE when
\* it returns false
LogReading(faults) ==
    /\ pc = "main"
    /\ currentMode = W(MODE_LOGGING)
    /\ \E temperature \in Temperatures, programOk \in Bools(faults), o \in Outcomes(faults) :
          IF AddressInFlash(currentIndex) /\ programOk
          THEN /\ flashData' = [flashData EXCEPT ![currentIndex] =
                       ProgramSlot(@, [index |-> W(currentIndex),
                                       temperature |-> temperature])]
               /\ progSlot' = currentIndex
               /\ written' = written \cup {currentIndex}
               /\ appends' = IF appends < AppendsCap THEN appends + 1 ELSE appends
               /\ implausible' = (implausible \/ ~ValidTemperature(temperature))
               /\ currentIndex' = currentIndex + 1
               /\ pc' = "sleep_entry"
               /\ UNCHANGED << flashConfig, config, currentMode >>
          ELSE /\ currentMode' = W(MODE_IDLE)
               /\ config' = [config EXCEPT !.mode = W(MODE_IDLE)]
               /\ flashConfig' = SaveConfigFlash(flashConfig, config', o)
               /\ progSlot' = NoSlot
               /\ pc' = "main"
               /\ UNCHANGED << flashData, written, appends, implausible, currentIndex >>
    /\ reply' = << >>
    /\ UNCHANGED << wdtFlag, resetDog, initPacket, initPage, resetFrom, lastBoot >>

\* the flag word after setWatchdogResetFlag() ends with outcome o
SetWatchdogResetFlag(old, o) ==
    CASE o = "erase_fail" -> old
      [] o = "program_fail" -> ERASED32
      [] OTHER -> RESET_FLAG_VALUE

\* enterSleep(): mark the reset as planned, arm the watchdog, wait for it
EnterSleep(faults) ==
    /\ pc = "sleep_entry"
    /\ currentMode = W(MODE_LOGGING)
    /\ \E o \in Outcomes(faults) : wdtFlag' = SetWatchdogResetFlag(wdtFlag, o)
    /\ pc' = "sleep"
    /\ progSlot' = NoSlot
    /\ UNCHANGED << flashConfig, flashData, resetDog, config, currentIndex,
                    currentMode, initPacket, initPage, reply, written, appends, implausible,
                    resetFrom, lastBoot >>

(***************************************************************************)
(* main(): MODE_IDLE branch, processSerialCommand()                        *)
(***************************************************************************)
\* a main() that polls the serial link in every mode
CommandModeAlways == pc = "main"

\* the loop of main() treats every mode but MODE_LOGGING as command mode
CommandMode == pc = "main" /\ currentMode # W(MODE_LOGGING)

IdleFrame ==
    /\ pc' = "main"
    /\ progSlot' = NoSlot
    /\ UNCHANGED << flashConfig, flashData, wdtFlag, resetDog, config,
                    currentIndex, currentMode, initPacket, initPage, written,
                    appends, implausible, resetFrom, lastBoot >>

\* '?'
CmdHandshake ==
    /\ CommandMode
    /\ reply' = << "Hello World!" >>
    /\ IdleFrame

\* a '!' handler that wants more than one record
StatusReplyAboveOne(data) ==
    IF findHighestDataIndex(data) > 1 THEN "HAS_DATA" ELSE "NEED_CONFIGURATION"

\* the reply to '!'
StatusReply(data) ==
    IF findHighestDataIndex(data) > 0 THEN "HAS_DATA" ELSE "NEED_CONFIGURATION"

\* '!'
CmdStatus ==
    /\ CommandMode
    /\ reply' = << StatusReply(flashData) >>
    /\ IdleFrame

\* any other byte
CmdUnknown ==
    /\ CommandMode
    /\ reply' = << "UNKNOWN" >>
    /\ IdleFrame

\* the lines of sendReadableData()
RECURSIVE DataLines(_, _, _, _)
DataLines(cfg, data, i, numEntries) ==
    IF i >= numEntries THEN << >>
    ELSE << << WAdd(cfg.initialTimestamp, WMul(data[i].index, cfg.wakeupInterval)),
               data[i].temperature >> >>
         \o DataLines(cfg, data, i + 1, numEntries)

\* a sendReadableData that prints the end marker before the records
sendReadableDataEndFirst(cfg, data) ==
    << << "Initial Timestamp", cfg.initialTimestamp >>,
       << "Wake-up Interval (Seconds)", cfg.wakeupInterval >>,
       << "Personal ID", cfg.personalId >>,
       "Timestamp,Temperature" >>
    \o << "END_DATA" >>
    \o DataLines(cfg, data, 0, findHighestDataIndex(data))

sendReadableData(cfg, data) ==
    << << "Initial Timestamp", cfg.initialTimestamp >>,
       << "Wake-up Interval (Seconds)", cfg.wakeupInterval >>,
       << "Personal ID", cfg.personalId >>,
       "Timestamp,Temperature" >>
    \o DataLines(cfg, data, 0, findHighestDataIndex(data))
    \o << "END_DATA" >>

\* 'r'
CmdRetrieve ==
    /\ CommandMode
    /\ reply' = sendReadableData(config, flashData)
    /\ IdleFrame

\* an 'i' handler that reports the timeout but goes on to initializeDevice
\* with the zero-filled buffer
CmdInitTimeoutProceeds ==
    /\ CommandMode
    /\ reply' = << "READY_FOR_INIT", "TIMEOUT" >>
    /\ initPacket' = MkPacket(0, 0, Pad(<< >>), 0)
    /\ initPage' = 0
    /\ pc' = "init_erase"
    /\ progSlot' = NoSlot
    /\ UNCHANGED << flashConfig, flashData, wdtFlag, resetDog, config, currentIndex,
                    currentMode, written, appends, implausible, resetFrom, lastBoot >>

\* 'i' when fewer than sizeof(InitializationData) bytes arrive in 5 seconds
CmdInitTimeout ==
    /\ CommandMode
    /\ reply' = << "READY_FOR_INIT", "TIMEOUT" >>
    /\ IdleFrame

\* an initializeDevice that resets currentIndex before it tests the checksum
CmdInitResetsIndexFirst ==
    /\ CommandMode
    /\ currentIndex' = 0
    /\ \E p \in Packets :
          IF ChecksumOk(p)
          THEN /\ reply' = << "READY_FOR_INIT" >>
               /\ initPacket' = p
               /\ initPage' = 0
               /\ pc' = "init_erase"
          ELSE /\ reply' = << "READY_FOR_INIT", "CHECKSUM_ERROR", "INIT_FAILED" >>
               /\ pc' = "main"
               /\ UNCHANGED << initPacket, initPage >>
    /\ progSlot' = NoSlot
    /\ UNCHANGED << flashConfig, flashData, wdtFlag, resetDog, config,
                    currentMode, written, appends, implausible, resetFrom, lastBoot >>

\* 'i' with a complete packet: initializeDevice(packedData) up to the
\* checksum verification
CmdInit ==
    /\ CommandMode
    /\ \E p \in Packets :
          IF ChecksumOk(p)
          THEN /\ reply' = << "READY_FOR_INIT" >>
               /\ initPacket' = p
               /\ initPage' = 0
               /\ pc' = "init_erase"
          ELSE /\ reply' = << "READY_FOR_INIT", "CHECKSUM_ERROR", "INIT_FAILED" >>
               /\ pc' = "main"
               /\ UNCHANGED << initPacket, initPage >>
    /\ progSlot' = NoSlot
    /\ UNCHANGED << flashConfig, flashData, wdtFlag, resetDog, config, currentIndex,
                    currentMode, written, appends, implausible, resetFrom, lastBoot >>

\* the data region after flash.erase of data page n
EraseDataPage(data, n) ==
    [s \in Slots |-> IF PageOf(s) = n THEN ErasedSlot ELSE data[s]]

\* initializeDevice: one pass of the loop that erases the data pages
InitErasePage(faults) ==
    /\ pc = "init_erase"
    /\ initPage < PagesNeeded
    /\ \E eraseOk \in Bools(faults) :
          IF eraseOk
          THEN /\ flashData' = EraseDataPage(flashData, initPage)
               /\ written' = IF initPage + 1 = PagesNeeded THEN {}
                             ELSE { s \in written : PageOf(s) # initPage }
               /\ appends' = IF initPage + 1 = PagesNeeded THEN 0 ELSE AppendsCap
               /\ implausible' = FALSE
               /\ initPage' = initPage + 1
               /\ pc' = "init_erase"
               /\ UNCHANGED << initPacket, reply >>
          ELSE /\ reply' = reply \o << "ERROR: Failed to erase data page", "INIT_FAILED" >>
               /\ initPacket' = NoPacket
               /\ initPage' = 0
               /\ pc' = "main"
               /\ UNCHANGED << flashData, written, appends, implausible >>
    /\ progSlot' = NoSlot
    /\ UNCHANGED << flashConfig, wdtFlag, resetDog, config, currentIndex, currentMode,
                    resetFrom, lastBoot >>

\* an initializeDevice that copies the timestamp and the id but leaves the
\* default interval in place
ConfigFromPacketKeepsInterval(p) ==
    [initialTimestamp |-> p.timestamp, wakeupInterval |-> W(DEFAULT_WAKEUP_INTERVAL),
     personalId |-> StrnCopy(p.personalId), mode |-> W(MODE_IDLE)]

\* the in-memory config initializeDevice builds from a packet
ConfigFromPacket(p) ==
    [initialTimestamp |-> p.timestamp, wakeupInterval |-> p.wakeupInterval,
     personalId |-> StrnCopy(p.personalId), mode |-> W(MODE_IDLE)]

\* initializeDevice after the erase loop: fill config, reset the index, save;
\* processSerialCommand then confirms and powers the system off
InitSave(faults) ==
    /\ pc = "init_erase"
    /\ initPage = PagesNeeded
    /\ config' = ConfigFromPacket(initPacket)
    /\ currentIndex' = 0
    /\ \E o \in Outcomes(faults) :
          /\ flashConfig' = SaveConfigFlash(flashConfig, config', o)
          /\ IF SaveConfigResult(o)
             THEN /\ reply' = reply \o << "INITIALIZED" >>
                  /\ pc' = "off"
             ELSE /\ reply' = reply \o << "INIT_FAILED" >>
                  /\ pc' = "main"
    /\ initPacket' = NoPacket
    /\ initPage' = 0
    /\ progSlot' = NoSlot
    /\ UNCHANGED << flashData, wdtFlag, resetDog, currentMode, written, appends, implausible,
                    resetFrom, lastBoot >>

(***************************************************************************)
(* Resets: the C runtime re-initializes the globals                        *)
(***************************************************************************)
RamInit ==
    /\ config' = DefaultConfig
    /\ currentIndex' = 0
    /\ currentMode' = W(MODE_IDLE)
    /\ initPacket' = NoPacket
    /\ initPage' = 0
    /\ reply' = << >>
    /\ progSlot' = NoSlot
    /\ resetFrom' = pc
    /\ UNCHANGED lastBoot

\* the watchdog armed by enterSleep expires
WatchdogReset ==
    /\ pc = "sleep"
    /\ pc' = "reset"
    /\ resetDog' = TRUE
    /\ RamInit
    /\ UNCHANGED << flashConfig, flashData, wdtFlag, written, appends, implausible >>

\* power is lost and returns: RESETREAS is cleared by the power-on reset
PowerCycle ==
    /\ pc # "reset"
    /\ pc' = "reset"
    /\ resetDog' = FALSE
    /\ RamInit
    /\ UNCHANGED << flashConfig, flashData, wdtFlag, written, appends, implausible >>

\* the reset pin: RESETREAS keeps the bits that were not cleared
PinReset ==
    /\ pc # "reset"
    /\ pc' = "reset"
    /\ RamInit
    /\ UNCHANGED << flashConfig, flashData, wdtFlag, resetDog, written, appends, implausible >>

(***************************************************************************)
(* Specifications                                                          *)
(***************************************************************************)
\* flash erase and program operations succeed
Next ==
    \/ Boot(FALSE)
    \/ LogReading(FALSE)
    \/ EnterSleep(FALSE)
    \/ CmdHandshake
    \/ CmdStatus
    \/ CmdUnknown
    \/ CmdRetrieve
    \/ CmdInitTimeout
    \/ CmdInit
    \/ InitErasePage(FALSE)
    \/ InitSave(FALSE)
    \/ WatchdogReset
    \/ PowerCycle
    \/ PinReset

Spec == Init /\ [][Next]_vars

\* flash.init, erase and program operations may fail
FaultNext ==
    \/ Boot(TRUE)
    \/ LogReading(TRUE)
    \/ EnterSleep(TRUE)
    \/ CmdHandshake
    \/ CmdStatus
    \/ CmdUnknown
    \/ CmdRetrieve
    \/ CmdInitTimeout
    \/ CmdInit
    \/ InitErasePage(TRUE)
    \/ InitSave(TRUE)
    \/ WatchdogReset
    \/ PowerCycle
    \/ PinReset

FaultSpec == Init /\ [][FaultNext]_vars

(***************************************************************************)
(* Claims                                                                  *)
(***************************************************************************)
\* the operating modes as main() dispatches on them
Logging == currentMode = W(MODE_LOGGING)
Idle == currentMode # W(MODE_LOGGING)

\* setup is about to run / has just run
Booting == pc = "reset" /\ pc' = "main"
\* the reset setup is about to examine is a planned wake-cycle reset
PlannedReset == resetDog /\ wdtFlag = RESET_FLAG_VALUE

\* C1: after N successful appends on an erased data region and a reset,
\* findHighestDataIndex returns exactly N, for every N up to MAX_DATA_ENTRIES.
C1_RecoverReturnsAppendCount ==
    (pc = "reset" /\ appends <= MAX_DATA_ENTRIES)
        => findHighestDataIndex(flashData) = appends

\* C1 (amended): after N successful appends of values inside the range the
\* scan accepts, on an erased data region, and a reset, findHighestDataIndex
\* returns exactly N, for every N up to MAX_DATA_ENTRIES.
C1_RecoverReturnsPlausibleAppendCount ==
    (pc = "reset" /\ appends <= MAX_DATA_ENTRIES /\ ~implausible)
        => findHighestDataIndex(flashData) = appends

C1_Witness ==
    /\ pc = "reset"
    /\ appends = MAX_DATA_ENTRIES
    /\ ~implausible
    /\ findHighestDataIndex(flashData) = MAX_DATA_ENTRIES

\* C2: an append attempted with the index at MAX_DATA_ENTRIES fails and
\* leaves the index unchanged at MAX_DATA_ENTRIES.
C2_AppendAtCapacityFails ==
    [][(pc = "main" /\ Logging /\ currentIndex = MAX_DATA_ENTRIES /\ pc' # "reset")
          => (currentIndex' = MAX_DATA_ENTRIES /\ progSlot' = NoSlot)]_vars

\* C3: every record program targets a slot inside the data region
\* [0, MAX_DATA_ENTRIES).
C3_ProgramInsideDataRegion ==
    progSlot # NoSlot => (0 <= progSlot /\ progSlot < MAX_DATA_ENTRIES)

\* C4: no append programs a slot that already holds a record written since
\* the last initialization.
C4_NoSlotReuse ==
    [][progSlot' # NoSlot => progSlot' \notin written]_vars

\* C5: a boot that finds mode LOGGING stored, a reset that was not planned
\* and a recovered index above 0 ends in MODE_IDLE with MODE_IDLE stored, and
\* the '!' command that follows is answered HAS_DATA.
C5_UnexpectedResetGoesIdle ==
    [][ /\ (Booting /\ flashConfig.mode = W(MODE_LOGGING) /\ ~PlannedReset
                /\ findHighestDataIndex(flashData) > 0)
            => (currentMode' = W(MODE_IDLE) /\ flashConfig'.mode = W(MODE_IDLE)
                    /\ currentIndex' > 0)
        /\ (lastBoot = "logging_to_idle" /\ pc = "main" /\ reply = << >>
                /\ currentIndex > 0 /\ Len(reply') = 1
                /\ reply'[1] \in { "HAS_DATA", "NEED_CONFIGURATION" })
            => reply'[1] = "HAS_DATA" ]_vars

C5_Witness ==
    /\ lastBoot = "logging_to_idle"
    /\ pc = "main"
    /\ currentMode = W(MODE_IDLE)
    /\ flashConfig.mode = W(MODE_IDLE)
    /\ currentIndex > 0
    /\ reply = << "HAS_DATA" >>

\* C6: a boot that finds mode LOGGING stored ends in MODE_LOGGING only if the
\* reset cause is the watchdog and the stored flag is RESET_FLAG_VALUE; every
\* other such boot ends in MODE_IDLE.
C6_LoggingOnlyAfterPlannedReset ==
    [][(Booting /\ flashConfig.mode = W(MODE_LOGGING))
          => /\ currentMode' = W(MODE_LOGGING) => PlannedReset
             /\ ~PlannedReset => currentMode' = W(MODE_IDLE) ]_vars

C6_Witness ==
    /\ lastBoot = "planned"
    /\ pc = "main"
    /\ currentMode = W(MODE_LOGGING)
    /\ flashConfig.mode = W(MODE_LOGGING)
    /\ resetFrom = "sleep"

\* C7: after a planned reset with k records stored the mode stays
\* MODE_LOGGING, the recovered index is k, and the one sample that follows is
\* programmed at slot k, the index becoming k + 1.
C7_PlannedResetAppendsAtK ==
    [][ /\ (Booting /\ flashConfig.mode = W(MODE_LOGGING) /\ PlannedReset
                /\ appends < AppendsCap)
            => (currentMode' = W(MODE_LOGGING) /\ currentIndex' = appends)
        /\ (lastBoot = "planned" /\ pc = "main" /\ Logging /\ pc' = "sleep_entry"
                /\ appends < AppendsCap)
            => (progSlot' = appends /\ currentIndex' = appends + 1) ]_vars

\* a power cycle struck while the device slept in a logging session, and
\* setup is about to run
PowerCycleInSleep ==
    Booting /\ resetFrom = "sleep" /\ ~resetDog /\ flashConfig.mode = W(MODE_LOGGING)

C9_ModeStoredBeforeSideEffects ==
    /\ pc \in { "main", "sleep_entry", "sleep" } => flashConfig.mode = currentMode
    /\ ((pc = "init_erase" /\ initPage > 0) \/ pc = "off")
          => flashConfig.mode = W(MODE_LOGGING)

\* C10: a boot that finds the config page erased, or a stored config whose
\* initialTimestamp is 0 (not initialized), does not end in MODE_LOGGING.
C10_UnpopulatedConfigBootsIdle ==
    [][(Booting /\ (flashConfig = ErasedConfig
                      \/ flashConfig.initialTimestamp = W(0)))
          => currentMode' # W(MODE_LOGGING)]_vars

\* a char[16] read as a C string: the bytes before the first NUL
RECURSIVE CStr(_)
CStr(id) ==
    IF id = << >> \/ Head(id) = 0 THEN << >> ELSE << Head(id) >> \o CStr(Tail(id))
\* a string cut to the 15 characters a char[16] can hold
Truncated(str) == IF Len(str) < ID_SIZE THEN str ELSE SubSeq(str, 1, ID_SIZE - 1)

\* the test for a configured device: a start time, and an id that is neither
\* empty nor the default one
Populated(cfg) ==
    /\ WLess(W(0), cfg.initialTimestamp)
    /\ CStr(cfg.personalId) # << >>
    /\ CStr(cfg.personalId) # CStr(DefaultId)

\* C11: a boot that finds MODE_IDLE stored enters MODE_LOGGING exactly when
\* the stored config is populated and the recovered index is 0.
C11_AutoLoggingIffPopulatedAndEmpty ==
    [][(Booting /\ flashConfig.mode = W(MODE_IDLE))
          => (currentMode' = W(MODE_LOGGING)
                 <=> (Populated(flashConfig) /\ findHighestDataIndex(flashData) = 0))]_vars

\* C12: initializeDevice on a packet that passed the checksum test stores the
\* packet's timestamp, interval and id, leaves an empty log and is confirmed
\* with INITIALIZED; the boot that follows ends in MODE_LOGGING at index 0 with
\* that config.
C12_InitThenLogging ==
    [][ /\ (pc = "init_erase" /\ initPage = PagesNeeded /\ pc' # "reset")
            => /\ pc' = "off"
               /\ reply' = << "READY_FOR_INIT", "INITIALIZED" >>
               /\ flashConfig'.initialTimestamp = initPacket.timestamp
               /\ flashConfig'.wakeupInterval = initPacket.wakeupInterval
               /\ CStr(flashConfig'.personalId) = Truncated(CStr(initPacket.personalId))
               /\ findHighestDataIndex(flashData') = 0
        /\ (Booting /\ resetFrom = "off" /\ lastBoot # "none")
            => /\ currentMode' = W(MODE_LOGGING)
               /\ currentIndex' = 0
               /\ config'.initialTimestamp = flashConfig.initialTimestamp
               /\ config'.wakeupInterval = flashConfig.wakeupInterval
               /\ config'.personalId = flashConfig.personalId
               /\ flashConfig' = [flashConfig EXCEPT !.mode = W(MODE_LOGGING)] ]_vars

C12_Witness ==
    /\ lastBoot = "idle_to_logging"
    /\ resetFrom = "off"
    /\ pc = "main"
    /\ currentMode = W(MODE_LOGGING)
    /\ currentIndex = 0
    /\ config.initialTimestamp = W(1700000000)
    /\ config.wakeupInterval = W(300)
    /\ config.personalId = Dev1Id

\* what a failed or abandoned 'i' command must leave alone
InitLeavesDeviceAlone ==
    /\ pc' = "main"
    /\ currentMode' = currentMode
    /\ config' = config
    /\ flashConfig' = flashConfig
    /\ flashData' = flashData
    /\ currentIndex' = currentIndex

\* C15: an 'i' command whose packet fails the checksum test is answered
\* CHECKSUM_ERROR and INIT_FAILED; the device stays in command mode and the
\* in-memory config, the stored config, the data region and the index are
\* unchanged.
C15_ChecksumMismatchChangesNothing ==
    [][(CommandMode /\ Len(reply') = 3 /\ reply'[2] = "CHECKSUM_ERROR")
          => /\ reply' = << "READY_FOR_INIT", "CHECKSUM_ERROR", "INIT_FAILED" >>
             /\ InitLeavesDeviceAlone ]_vars

C15_Witness ==
    /\ pc = "main"
    /\ reply = << "READY_FOR_INIT", "CHECKSUM_ERROR", "INIT_FAILED" >>
    /\ currentMode = W(MODE_IDLE)
    /\ currentIndex > 0
    /\ findHighestDataIndex(flashData) = currentIndex

\* C16: an 'i' command whose packet does not arrive in full within 5 seconds
\* is answered TIMEOUT; no initialization starts, the device stays in command
\* mode and config, data region and index are unchanged.
C16_TimeoutChangesNothing ==
    [][(CommandMode /\ Len(reply') = 2 /\ reply'[2] = "TIMEOUT")
          => /\ reply' = << "READY_FOR_INIT", "TIMEOUT" >>
             /\ initPacket' = NoPacket
             /\ InitLeavesDeviceAlone ]_vars

C16_Witness ==
    /\ pc = "main"
    /\ reply = << "READY_FOR_INIT", "TIMEOUT" >>
    /\ currentMode = W(MODE_IDLE)
    /\ currentIndex > 0
    /\ findHighestDataIndex(flashData) = currentIndex

\* saveTemperatureReading returned false: main() stays in its loop
AppendFailed == pc = "main" /\ Logging /\ pc' = "main"

C18_NoCommandsWhileLogging ==
    [][(Logging /\ pc' # "reset")
          => /\ reply' = << >>
             /\ pc' \in { "main", "sleep_entry", "sleep" }
             /\ initPacket' = NoPacket
             /\ flashConfig'.initialTimestamp = flashConfig.initialTimestamp
             /\ flashConfig'.wakeupInterval = flashConfig.wakeupInterval
             /\ flashConfig'.personalId = flashConfig.personalId
             /\ (flashData' # flashData => progSlot' # NoSlot) ]_vars

C18_Witness ==
    /\ Logging
    /\ pc = "sleep"
    /\ appends > 0
    /\ reply = << >>
    /\ flashConfig.mode = W(MODE_LOGGING)

\* a step that answers a '!' command
StatusAnswered ==
    CommandMode /\ Len(reply') = 1 /\ reply'[1] \in { "HAS_DATA", "NEED_CONFIGURATION" }

\* C19: '!' is answered HAS_DATA when the recovered index is above 0 and
\* NEED_CONFIGURATION otherwise, and changes no state.
C19_StatusReplyByRecoveredIndex ==
    [][StatusAnswered
          => /\ reply'[1] = "HAS_DATA" <=> findHighestDataIndex(flashData) > 0
             /\ UNCHANGED << pc, flashConfig, flashData, wdtFlag, resetDog, config,
                             currentIndex, currentMode, initPacket, initPage >> ]_vars

C19_Witness ==
    /\ pc = "main"
    /\ reply = << "NEED_CONFIGURATION" >>
    /\ findHighestDataIndex(flashData) = 0
    /\ appends = 1
    /\ currentMode = W(MODE_IDLE)

(***************************************************************************)
(* The checksum test of initializeDevice on its own: a host sends a packet *)
(* of 28 bytes, the device verifies it; the host then resends an accepted  *)
(* packet with one payload byte changed.                                   *)
(***************************************************************************)
\* 16 non-zero bytes: an id without a terminator
FullId == [i \in 1..ID_SIZE |-> 65]
\* "AB", a NUL, then leftover bytes
DirtyId == Pad(<< 65, 66, 0, 67 >>)

\* the packets memcpy finds in packedData
PacketInputs ==
    { MkPacket(ts, iv, id, delta) :
        ts \in { 0, 255, 1700000000 }, iv \in { 0, 300 },
        id \in { Pad(<< >>), Dev1Id, DirtyId, FullId }, delta \in { 0, 1, 256 } }

\* the values a corrupted byte takes
ByteValues == { 0, 1, 65, 255 }
PayloadPositions == 1..(2 * 4 + ID_SIZE)

\* a uint32_t from its four bytes in memory order
Word32(b) == << b[3] + 256 * b[4], b[1] + 256 * b[2] >>

\* memcpy(&initData, packedData, sizeof(InitializationData)) on the payload
\* bytes and the checksum word
PacketFromBytes(bytes, checksum) ==
    [timestamp |-> Word32(SubSeq(bytes, 1, 4)),
     wakeupInterval |-> Word32(SubSeq(bytes, 5, 8)),
     personalId |-> SubSeq(bytes, 9, 8 + ID_SIZE),
     checksum |-> checksum]

\* packet p with payload byte i replaced by v
WithPayloadByte(p, i, v) ==
    PacketFromBytes([PayloadBytes(p) EXCEPT ![i] = v], p.checksum)

PacketInit ==
    /\ pc = "pkt_received"
    /\ initPacket \in PacketInputs
    /\ flashConfig = ErasedConfig
    /\ flashData = [s \in Slots |-> ErasedSlot]
    /\ wdtFlag = ERASED32
    /\ resetDog = FALSE
    /\ config = DefaultConfig
    /\ currentIndex = 0
    /\ currentMode = W(MODE_IDLE)
    /\ initPage = 0
    /\ reply = << "READY_FOR_INIT" >>
    /\ progSlot = NoSlot
    /\ written = {}
    /\ appends = 0
    /\ implausible = FALSE
    /\ resetFrom = "off"
    /\ lastBoot = "kept"

\* initializeDevice up to the checksum comparison, and the copy into config
\* that follows acceptance
VerifyPacket(accepted, rejected) ==
    /\ IF ChecksumOk(initPacket)
       THEN /\ pc' = accepted
            /\ config' = ConfigFromPacket(initPacket)
            /\ UNCHANGED reply
       ELSE /\ pc' = rejected
            /\ reply' = reply \o << "CHECKSUM_ERROR", "INIT_FAILED" >>
            /\ UNCHANGED config
    /\ UNCHANGED << flashConfig, flashData, wdtFlag, resetDog, currentIndex,
                    currentMode, initPacket, initPage, progSlot, written, appends,
                    implausible, resetFrom, lastBoot >>

PktVerify ==
    /\ pc = "pkt_received"
    /\ VerifyPacket("pkt_accepted", "pkt_rejected")

\* the host sends the accepted packet again with one payload byte changed
PktResend ==
    /\ pc = "pkt_accepted"
    /\ \E i \in PayloadPositions, v \in ByteValues :
          /\ v # PayloadBytes(initPacket)[i]
          /\ initPacket' = WithPayloadByte(initPacket, i, v)
    /\ pc' = "pkt_resent"
    /\ reply' = << "READY_FOR_INIT" >>
    /\ config' = DefaultConfig
    /\ UNCHANGED << flashConfig, flashData, wdtFlag, resetDog, currentIndex,
                    currentMode, initPage, progSlot, written, appends,
                    implausible, resetFrom, lastBoot >>

PktVerifyResent ==
    /\ pc = "pkt_resent"
    /\ VerifyPacket("pkt_resent_accepted", "pkt_resent_rejected")

PacketNext == PktVerify \/ PktResend \/ PktVerifyResent

PacketSpec == PacketInit /\ [][PacketNext]_vars

\* the sum of the 24 bytes in front of the checksum field as a 32-bit word
\* (24 bytes sum to 6120 at most, so nothing is cut off)
ByteSum32(p) ==
    W(SumSeq(Bytes32(p.timestamp)) + SumSeq(Bytes32(p.wakeupInterval))
        + SumSeq(p.personalId))

\* C13: a packet is accepted if and only if its checksum field equals the
\* sum of the payload bytes in front of it, truncated to 32 bits.
C13_AcceptIffChecksumIsByteSum ==
    /\ pc \in { "pkt_accepted", "pkt_resent_accepted" }
          => initPacket.checksum = ByteSum32(initPacket)
    /\ pc \in { "pkt_rejected", "pkt_resent_rejected" }
          => initPacket.checksum # ByteSum32(initPacket)

C13_Witness ==
    /\ pc = "pkt_accepted"
    /\ initPacket.personalId = FullId
    /\ initPacket.checksum = ByteSum32(initPacket)
    /\ WLess(W(255), initPacket.checksum)

\* C14: an accepted packet resent with one payload byte changed is rejected.
C14_OneByteChangeRejected == pc # "pkt_resent_accepted"

C14_Witness ==
    /\ pc = "pkt_resent_rejected"
    /\ initPacket.checksum = ByteSum32(PacketFromBytes(
           [PayloadBytes(initPacket) EXCEPT ![9] = 68], initPacket.checksum))
    /\ initPacket.personalId[1] # 68
    /\ reply = << "READY_FOR_INIT", "CHECKSUM_ERROR", "INIT_FAILED" >>

(***************************************************************************)
(* The timer variant (src/collect_temperature_new): the write index lives  *)
(* in the config record, a magic number marks a valid config, commands are *)
(* text lines, and a third mode streams the log.  pc is "reset", "main",   *)
(* "save_index", "retrieve", "stream" or "off"; initPage is the loop       *)
(* variable i of sendDataToHost; currentIndex is not used.                 *)
(***************************************************************************)
MODE_DATA_RETRIEVAL == 2

\* 0xABCD1234
MAGIC == << 43981, 4660 >>
\* the interval enterSleep writes into config ("DEBUG ONLY")
DEBUG_INTERVAL == W(30)

TDefaultConfig ==
    [initialTimestamp |-> W(0), wakeupInterval |-> W(DEFAULT_WAKEUP_INTERVAL),
     personalId |-> DefaultId, currentDataIndex |-> W(0), mode |-> W(MODE_IDLE),
     magicNumber |-> MAGIC]
TErasedConfig ==
    [initialTimestamp |-> ERASED32, wakeupInterval |-> ERASED32,
     personalId |-> ErasedId, currentDataIndex |-> ERASED32, mode |-> ERASED32,
     magicNumber |-> ERASED32]

\* the config saveConfig() programs: it syncs mode and magicNumber first
TSynced(cfg, mode) == [cfg EXCEPT !.mode = mode, !.magicNumber = MAGIC]
\* the config page after saveConfig() ends with outcome o (no read-back here)
TSaveConfigFlash(old, cfg, o) ==
    CASE o = "erase_fail" -> old
      [] o = "program_fail" -> TErasedConfig
      [] OTHER -> cfg

\* strtok(buffer, ","): the non-empty runs between commas
RECURSIVE Tokens(_, _)
Tokens(str, cur) ==
    IF str = << >> THEN (IF cur = << >> THEN << >> ELSE << cur >>)
    ELSE IF Head(str) = 44
         THEN (IF cur = << >> THEN << >> ELSE << cur >>) \o Tokens(Tail(str), << >>)
         ELSE Tokens(Tail(str), Append(cur, Head(str)))

\* strtoul(token, NULL, 10): the value of the leading decimal digits
RECURSIVE StrToUL(_, _)
StrToUL(tok, acc) ==
    IF tok = << >> \/ Head(tok) < 48 \/ Head(tok) > 57 THEN acc
    ELSE StrToUL(Tail(tok), WAdd(WMul(acc, W(10)), W(Head(tok) - 48)))

\* the payloads of CMD:INIT; the host sends: "1700000000,DEV1,300",
\* "1700000001" (nothing after the timestamp), "1700000000,,300" (empty id)
TextPackets ==
    { << 49, 55, 48, 48, 48, 48, 48, 48, 48, 48, 44, 68, 69, 86, 49, 44, 51, 48, 48 >>,
      << 49, 55, 48, 48, 48, 48, 48, 48, 48, 49 >>,
      << 49, 55, 48, 48, 48, 48, 48, 48, 48, 48, 44, 44, 51, 48, 48 >> }

\* initializeDevice(packet): the config it leaves in memory, field by field
TParsed(cfg, packet) ==
    LET t == Tokens(packet, << >>)
        c1 == IF Len(t) >= 1
              THEN [cfg EXCEPT !.initialTimestamp = StrToUL(t[1], W(0))] ELSE cfg
        c2 == IF Len(t) >= 2
              THEN [c1 EXCEPT !.personalId = StrnCopy(Pad(t[2]))] ELSE c1
    IN  IF Len(t) >= 3
        THEN [c2 EXCEPT !.wakeupInterval = StrToUL(t[3], W(0)),
                        !.currentDataIndex = W(0)]
        ELSE c2
\* initializeDevice reaches its saveConfig()
TParseOk(packet) == Len(Tokens(packet, << >>)) >= 3

TimerInit ==
    /\ pc = "reset"
    /\ flashConfig = TErasedConfig
    /\ flashData = [s \in Slots |-> ErasedSlot]
    /\ wdtFlag = ERASED32
    /\ resetDog = FALSE
    /\ config = TDefaultConfig
    /\ currentIndex = 0
    /\ currentMode = W(MODE_IDLE)
    /\ initPacket = NoPacket
    /\ initPage = 0
    /\ reply = << >>
    /\ progSlot = NoSlot
    /\ written = {}
    /\ appends = 0
    /\ implausible = FALSE
    /\ resetFrom = "off"
    /\ lastBoot = "none"

\* what the timer variant never touches
TimerFrame == UNCHANGED << wdtFlag, resetDog, currentIndex, initPacket, resetFrom >>

\* setup(): load the config, choose the mode from its content, save it back
TSetup(faults) ==
    /\ pc = "reset"
    /\ \E initOk \in Bools(faults), o \in Outcomes(faults) :
          IF initOk
          THEN LET loaded == flashConfig
                   validConfig == loaded.magicNumber = MAGIC
                   mode == IF validConfig /\ Populated(loaded)
                              /\ loaded.currentDataIndex = W(0)
                           THEN W(MODE_LOGGING) ELSE W(MODE_IDLE)
               IN  /\ currentMode' = mode
                   /\ config' = TSynced(loaded, mode)
                   /\ flashConfig' = TSaveConfigFlash(flashConfig, config', o)
          ELSE /\ currentMode' = W(MODE_IDLE)
               /\ UNCHANGED << config, flashConfig >>
    /\ pc' = "main"
    /\ reply' = << >>
    /\ progSlot' = NoSlot
    /\ initPage' = 0
    /\ UNCHANGED << flashData, written, appends, implausible, lastBoot >>
    /\ TimerFrame

\* records a session may append before the model stops counting
TIndexCap == 2 * MAX_DATA_ENTRIES

\* main() MODE_LOGGING: enterSleep() until the timer fires, then
\* saveTemperatureReading() up to config.currentDataIndex++
TLogProgram(faults) ==
    /\ pc = "main"
    /\ currentMode = W(MODE_LOGGING)
    /\ WLess(config.currentDataIndex, W(TIndexCap))
    /\ \E temperature \in Temperatures, eraseOk \in Bools(faults),
          programOk \in Bools(faults) :
          LET idx == WNat(config.currentDataIndex)
              slot == idx % MAX_DATA_ENTRIES
              firstOfPage == idx % SlotsPerPage = 0
              erased == IF firstOfPage THEN EraseDataPage(flashData, PageOf(slot))
                        ELSE flashData
              slept == [config EXCEPT !.wakeupInterval = DEBUG_INTERVAL]
          IN  IF firstOfPage /\ ~eraseOk
              THEN /\ config' = slept
                   /\ pc' = "main"
                   /\ progSlot' = NoSlot
                   /\ UNCHANGED << flashData, written, appends, implausible >>
              ELSE IF ~programOk
              THEN /\ config' = slept
                   /\ flashData' = erased
                   /\ written' = { s \in written : erased[s] = flashData[s] }
                   /\ pc' = "main"
                   /\ progSlot' = NoSlot
                   /\ UNCHANGED << appends, implausible >>
              ELSE /\ flashData' = [erased EXCEPT ![slot] =
                          ProgramSlot(@, [index |-> W(idx), temperature |-> temperature])]
                   /\ config' = [slept EXCEPT !.currentDataIndex = WInc(@)]
                   /\ progSlot' = slot
                   /\ written' = { s \in written : erased[s] = flashData[s] } \cup { slot }
                   /\ appends' = IF appends < AppendsCap THEN appends + 1 ELSE appends
                   /\ implausible' = (implausible \/ ~ValidTemperature(temperature))
                   /\ pc' = "save_index"
    /\ reply' = << >>
    /\ UNCHANGED << flashConfig, currentMode, initPage, lastBoot >>
    /\ TimerFrame

\* the saveConfig() that ends saveTemperatureReading(); main() ignores the result
TLogSave(faults) ==
    /\ pc = "save_index"
    /\ \E o \in Outcomes(faults) :
          /\ config' = TSynced(config, currentMode)
          /\ flashConfig' = TSaveConfigFlash(flashConfig, config', o)
    /\ pc' = "main"
    /\ progSlot' = NoSlot
    /\ UNCHANGED << flashData, currentMode, initPage, reply, written, appends,
                    implausible, lastBoot >>
    /\ TimerFrame

\* main() polls the serial link in the MODE_IDLE/default branch only
TCommandMode ==
    /\ pc = "main"
    /\ currentMode # W(MODE_LOGGING)
    /\ currentMode # W(MODE_DATA_RETRIEVAL)

\* what a command that only answers leaves alone
TAnswerOnly ==
    /\ pc' = "main"
    /\ progSlot' = NoSlot
    /\ UNCHANGED << flashConfig, flashData, config, currentMode, initPage, written,
                    appends, implausible, lastBoot >>
    /\ TimerFrame

\* CMD:STATUS;
handleStatusRequest ==
    /\ TCommandMode
    /\ reply' = << IF currentMode = W(MODE_LOGGING) THEN "LOGGING"
                   ELSE IF config.currentDataIndex # W(0) THEN "HAS_DATA"
                   ELSE IF config.initialTimestamp # W(0) THEN "CONFIGURED"
                   ELSE "NOT_CONFIGURED" >>
    /\ TAnswerOnly

\* CMD:INIT; without a payload
handleInitRequest ==
    /\ TCommandMode
    /\ reply' = << "READY_FOR_INIT" >>
    /\ TAnswerOnly

\* a line that is no known command
TUnknownCommand ==
    /\ TCommandMode
    /\ reply' = << "Unknown command" >>
    /\ TAnswerOnly

\* CMD:INIT;<payload>: initializeDevice, then prepareForLogging and SYSTEMOFF
TInitialize(faults) ==
    /\ TCommandMode
    /\ \E packet \in TextPackets, o \in Outcomes(faults) :
          LET parsed == TParsed(config, packet)
          IN  IF TParseOk(packet)
              THEN /\ config' = TSynced(parsed, currentMode)
                   /\ flashConfig' = TSaveConfigFlash(flashConfig, config', o)
                   /\ reply' = << IF o = "ok" THEN "INITIALIZED" ELSE "INIT_FAILED" >>
                   /\ pc' = IF o = "ok" THEN "off" ELSE "main"
              ELSE /\ config' = parsed
                   /\ reply' = << "INIT_FAILED" >>
                   /\ pc' = "main"
                   /\ UNCHANGED flashConfig
    /\ progSlot' = NoSlot
    /\ UNCHANGED << flashData, currentMode, initPage, written, appends, implausible,
                    lastBoot >>
    /\ TimerFrame

\* CMD:RETRIEVE; up to the call of sendDataToHost
handleRetrieveRequest(faults) ==
    /\ TCommandMode
    /\ IF config.currentDataIndex = W(0)
       THEN /\ reply' = << "NO_DATA" >>
            /\ pc' = "main"
            /\ UNCHANGED << config, flashConfig, currentMode >>
       ELSE /\ currentMode' = W(MODE_DATA_RETRIEVAL)
            /\ \E o \in Outcomes(faults) :
                  /\ config' = TSynced(config, currentMode')
                  /\ flashConfig' = TSaveConfigFlash(flashConfig, config', o)
            /\ reply' = << "SENDING_DATA" >>
            /\ pc' = "retrieve"
    /\ progSlot' = NoSlot
    /\ UNCHANGED << flashData, initPage, written, appends, implausible, lastBoot >>
    /\ TimerFrame

\* min(config.currentDataIndex, MAX_DATA_ENTRIES)
NumEntries(cfg) ==
    IF WLess(cfg.currentDataIndex, W(MAX_DATA_ENTRIES))
    THEN WNat(cfg.currentDataIndex) ELSE MAX_DATA_ENTRIES

\* sendDataToHost up to its loop: called by handleRetrieveRequest, and by
\* main() when the loop finds MODE_DATA_RETRIEVAL
sendDataToHost(faults) ==
    /\ \/ pc = "retrieve"
       \/ pc = "main" /\ currentMode = W(MODE_DATA_RETRIEVAL)
    /\ LET said == IF pc = "retrieve" THEN reply ELSE << >>
           metadata == << << "Initial Timestamp", config.initialTimestamp >>,
                          << "Wake-up Interval", config.wakeupInterval >>,
                          << "Personal ID", config.personalId >>,
                          << "Total Readings", config.currentDataIndex >> >>
       IN  IF config.currentDataIndex = W(0)
           THEN /\ reply' = said \o metadata
                               \o << "BEGIN", "No data available.", "END" >>
                /\ currentMode' = W(MODE_IDLE)
                /\ \E o \in Outcomes(faults) :
                      /\ config' = TSynced(config, currentMode')
                      /\ flashConfig' = TSaveConfigFlash(flashConfig, config', o)
                /\ pc' = "main"
           ELSE /\ reply' = said \o metadata \o << "BEGIN" >>
                /\ pc' = "stream"
                /\ UNCHANGED << config, flashConfig, currentMode >>
    /\ initPage' = 0
    /\ progSlot' = NoSlot
    /\ UNCHANGED << flashData, written, appends, implausible, lastBoot >>
    /\ TimerFrame

\* sendDataToHost: one pass of the loop over the stored records
TStreamRecord(faults) ==
    /\ pc = "stream"
    /\ initPage < NumEntries(config)
    /\ \E readOk \in Bools(faults) :
          reply' = Append(reply, IF readOk
                                 THEN << flashData[initPage].index,
                                         flashData[initPage].temperature >>
                                 ELSE << "ERROR", initPage >>)
    /\ initPage' = initPage + 1
    /\ UNCHANGED << pc, flashConfig, flashData, config, currentMode, progSlot, written,
                    appends, implausible, lastBoot >>
    /\ TimerFrame

\* an end of sendDataToHost that sends END and leaves the mode as it is
TStreamEndStaysInRetrieval(faults) ==
    /\ pc = "stream"
    /\ initPage >= NumEntries(config)
    /\ reply' = Append(reply, "END")
    /\ pc' = "main"
    /\ UNCHANGED << flashConfig, flashData, config, currentMode, initPage, progSlot,
                    written, appends, implausible, lastBoot >>
    /\ TimerFrame

\* sendDataToHost after the loop: END, back to MODE_IDLE, saveConfig()
TStreamEnd(faults) ==
    /\ pc = "stream"
    /\ initPage >= NumEntries(config)
    /\ reply' = Append(reply, "END")
    /\ currentMode' = W(MODE_IDLE)
    /\ \E o \in Outcomes(faults) :
          /\ config' = TSynced(config, currentMode')
          /\ flashConfig' = TSaveConfigFlash(flashConfig, config', o)
    /\ pc' = "main"
    /\ UNCHANGED << flashData, initPage, progSlot, written, appends, implausible,
                    lastBoot >>
    /\ TimerFrame

\* power is removed and applied again (also the way out of SYSTEMOFF)
TPowerCycle ==
    /\ pc # "reset"
    /\ pc' = "reset"
    /\ config' = TDefaultConfig
    /\ currentMode' = W(MODE_IDLE)
    /\ initPage' = 0
    /\ reply' = << >>
    /\ progSlot' = NoSlot
    /\ UNCHANGED << flashConfig, flashData, written, appends, implausible, lastBoot >>
    /\ TimerFrame

TimerNext ==
    \/ TSetup(FALSE)
    \/ TLogProgram(FALSE)
    \/ TLogSave(FALSE)
    \/ handleStatusRequest
    \/ handleInitRequest
    \/ TUnknownCommand
    \/ TInitialize(FALSE)
    \/ handleRetrieveRequest(FALSE)
    \/ sendDataToHost(FALSE)
    \/ TStreamRecord(FALSE)
    \/ TStreamEnd(FALSE)
    \/ TPowerCycle

TimerSpec == TimerInit /\ [][TimerNext]_vars

\* setup() and sendDataToHost run to completion while the device has power
TimerLiveSpec ==
    /\ TimerSpec
    /\ WF_vars(TSetup(FALSE))
    /\ WF_vars(sendDataToHost(FALSE))
    /\ WF_vars(TStreamRecord(FALSE))
    /\ WF_vars(TStreamEnd(FALSE))

Retrieval == currentMode = W(MODE_DATA_RETRIEVAL)
ModeIdle == currentMode = W(MODE_IDLE)

\* C20: MODE_DATA_RETRIEVAL is entered only from MODE_IDLE by CMD:RETRIEVE,
\* is left with power on only after every stored record has been sent, and
\* always ends with MODE_IDLE in memory and in the stored config.
C20_RetrievalFromIdleEndsIdle ==
    /\ [][(~Retrieval /\ Retrieval')
             => (pc = "main" /\ ModeIdle /\ reply' = << "SENDING_DATA" >>)]_vars
    /\ [][(Retrieval /\ ~Retrieval' /\ pc' # "reset")
             => (initPage = NumEntries(config) /\ reply'[Len(reply')] = "END")]_vars
    /\ Retrieval ~> (ModeIdle /\ flashConfig.mode = W(MODE_IDLE))
    /\ (flashConfig.mode = W(MODE_DATA_RETRIEVAL)) ~> (flashConfig.mode = W(MODE_IDLE))

\* a retrieval that streamed every stored record and is back in MODE_IDLE
C20_Witness ==
    /\ pc = "main"
    /\ ModeIdle
    /\ flashConfig.mode = W(MODE_IDLE)
    /\ Len(reply) > 1
    /\ reply[1] = "SENDING_DATA"
    /\ reply[Len(reply)] = "END"
    /\ initPage = NumEntries(config)
    /\ initPage >= 2

\* sendDataToHost has sent END: the record lines are those after BEGIN
StreamDone == pc = "stream" /\ pc' = "main"
\* the record lines of a finished stream (between BEGIN and END)
RecordLines(out) ==
    LET begin == CHOOSE i \in 1..Len(out) : out[i] = "BEGIN"
    IN  SubSeq(out, begin + 1, Len(out) - 1)

\* C21: a retrieval sends one line per stored record, slot 0 up to the
\* recovered index - 1 in address order, so the number of record lines is
\* the recovered index (config.currentDataIndex in the timer variant).
C21_OneLinePerRecordUpToIndex ==
    [][StreamDone
          => /\ W(Len(RecordLines(reply'))) = config.currentDataIndex
             /\ \A i \in 1..Len(RecordLines(reply')) :
                   RecordLines(reply')[i] = << flashData[i - 1].index,
                                              flashData[i - 1].temperature >>]_vars

\* 'r' has been answered: no other command prints five lines or more
Retrieved == CommandMode /\ Len(reply') >= 5

\* C22: the 'r' stream is the metadata header (initial timestamp, interval,
\* id), then the record lines of slots 0 .. recovered index - 1, then
\* END_DATA as the last line; END_DATA appears once.
C22_StreamOrderedEndDataLast ==
    [][Retrieved
          => LET out == reply'
                 n == Len(out)
             IN  /\ out[1] = << "Initial Timestamp", config.initialTimestamp >>
                 /\ out[2] = << "Wake-up Interval (Seconds)", config.wakeupInterval >>
                 /\ out[3] = << "Personal ID", config.personalId >>
                 /\ out[4] = "Timestamp,Temperature"
                 /\ n = 5 + findHighestDataIndex(flashData)
                 /\ \A i \in 5..(n - 1) :
                       << WAdd(config.initialTimestamp,
                               WMul(flashData[i - 5].index, config.wakeupInterval)),
                          flashData[i - 5].temperature >> = out[i]
                 /\ out[n] = "END_DATA"
                 /\ \A i \in 1..(n - 1) : out[i] # "END_DATA"]_vars

\* an 'r' stream with two record lines or more
C22_Witness ==
    /\ pc = "main"
    /\ Len(reply) >= 7
    /\ reply[Len(reply)] = "END_DATA"
    /\ reply[4] = "Timestamp,Temperature"

\* initializeDevice returns true: the serial handler confirms and powers off
InitSucceeded == pc = "init_erase" /\ pc' = "off"
\* the slots findHighestDataIndex scans
ScannedSlots == 0..(MAX_DATA_ENTRIES - 1)

\* C23: a successful initialization leaves every scanned slot erased, the
\* config page rewritten with the new config and the index at 0; the scan
\* returns 0 right after it and in the boot that follows it.
C23_InitErasesDataAndResetsIndex ==
    /\ [][InitSucceeded
             => /\ \A s \in ScannedSlots : flashData'[s] = ErasedSlot
                /\ flashConfig' = ConfigFromPacket(initPacket)
                /\ currentIndex' = 0
                /\ findHighestDataIndex(flashData') = 0]_vars
    /\ [][(Booting /\ resetFrom = "off")
             => (findHighestDataIndex(flashData) = 0
                   /\ (lastBoot' # "init_failed" => currentIndex' = 0))]_vars

\* a device initialized again after a logging session that a reset ended
C23_Witness ==
    /\ pc = "off"
    /\ lastBoot = "logging_to_idle"
    /\ flashConfig.initialTimestamp = W(1700000000)
    /\ findHighestDataIndex(flashData) = 0
    /\ currentIndex = 0

\* C24: whatever happens to a config save, the ConfigData stored in flash is
\* the value of the last save that succeeded (the stored one left alone, or
\* the in-memory one just written and verified) or the power-on default.
C24_StoredConfigVerifiedOrDefault ==
    [][ \/ flashConfig' = flashConfig
        \/ flashConfig' = config'
        \/ flashConfig' = DefaultConfig ]_vars

\* the saveConfig() at the end of initializeDevice returns false
InitSaveFailed == pc = "init_erase" /\ initPage = PagesNeeded /\ pc' = "main"

\* C25: when the config save at the end of an initialization fails, the
\* in-memory config and index are the ones from before the initialization.
C25_FailedInitSaveKeepsConfig ==
    [][InitSaveFailed => (config' = config /\ currentIndex' = currentIndex)]_vars

\* Flash operations may fail at any time; the user power-cycles the device
\* again and again, and a setup() whose flash operations all succeed is not
\* postponed forever.
RecoverSpec ==
    /\ FaultSpec
    /\ SF_vars(PowerCycle)
    /\ SF_vars(Boot(FALSE))

\* main() is in its command branch
InCommandMode == pc = "main" /\ Idle

\* C26: whatever error struck (bad checksum, failed flash operation, timeout,
\* unexpected reset), the boots that follow reach command mode again: no
\* stored state keeps every later boot out of MODE_IDLE.
C26_BootsReachIdleAgain == []<>InCommandMode

\* a boot that took the LOGGING to IDLE branch and is in command mode although
\* its save of MODE_IDLE failed
C26_Witness ==
    /\ InCommandMode
    /\ lastBoot = "logging_to_idle"
    /\ flashConfig.mode # W(MODE_IDLE)

(***************************************************************************)
(* The NVMC variant (src/collect_temperature/collect_temperature.ino):     *)
(* everything happens in setup(), which either appends one entry after a   *)
(* watchdog reset or waits for 'l' (erase, read the packet, start logging) *)
(* or 'r' (print the log).  The variables hold:                            *)
(*   pc           "reset" | "sleep" (low power, watchdog running) | "done" *)
(*   flashConfig  the words at INITIAL_TIMESTAMP_ADDRESS (a 32-bit word),  *)
(*                PERSONAL_ID_ADDRESS and WAKEUP_INTERVAL_ADDRESS (the     *)
(*                16 bits the load functions read)                         *)
(*   wdtFlag      the byte at REQUIRED_WDT_CYCLES_ADDRESS                  *)
(*   flashData    the TemperatureLogEntry slots from FLASH_START_ADDRESS   *)
(*   config       initial_timestamp, personal_id, wakeup_interval          *)
(*   currentIndex log_index;  currentMode  current_mode                    *)
(*   initPacket   history: the packet of the last 'l', once it has parsed  *)
(*   initPage     the cycle count in NRF_POWER->GPREGRET                   *)
(*   lastBoot     history: the watchdog expiries since the last append     *)
(***************************************************************************)
\* enum DeviceMode
LOGGING == 0
RETRIEVAL == 1

\* MAX_LOG_ENTRIES: every slot up to the end of the flash
MAX_LOG_ENTRIES == FlashDataSlots
\* an erased half word
ERASED16 == Half - 1
NErasedEntry == [index |-> ERASED16, temperature |-> ERASED16]
NErasedWords ==
    [initialTimestamp |-> ERASED32, personalId |-> ERASED16, wakeupInterval |-> ERASED16]
\* the globals after the C runtime has initialized them
NRam == [initialTimestamp |-> W(0), personalId |-> 0, wakeupInterval |-> 0]

\* nrf_nvmc_write_words on a half word: bits can only be cleared
NWrite16(old, v) == BitAnd(old, v)

\* the fields "<epoch_time,personal_id,wakeup_interval>" as sscanf splits them:
\* "1700000000","7","300"; "1700000000","70007","600"; "1700000000","DEV1","300";
\* and a packet with two fields only
NPackets ==
    { << << 49, 55, 48, 48, 48, 48, 48, 48, 48, 48 >>, << 55 >>, << 51, 48, 48 >> >>,
      << << 49, 55, 48, 48, 48, 48, 48, 48, 48, 48 >>, << 55, 48, 48, 48, 55 >>,
         << 54, 48, 48 >> >>,
      << << 49, 55, 48, 48, 48, 48, 48, 48, 48, 48 >>, << 68, 69, 86, 49 >>,
         << 51, 48, 48 >> >>,
      << << 49, 55, 48, 48, 48, 48, 48, 48, 48, 48 >>, << 55 >> >> }
\* what strtoul finds in a buffer sscanf did not fill
NGarbage == { << >>, << 57 >> }
\* (int16_t)(HS300x.readTemperature() * 100) as a bit pattern: 20.00, 21.50
NTemperatures == { 2000, 2150 }

\* (uint16_t)strtoul(str, NULL, 10)
NToU16(str) == StrToUL(str, W(0))[2]

\* recoverLastLogIndex(): the first slot whose index reads 0xFFFF, else the
\* value log_index had
recoverLastLogIndex(data, log_index) ==
    IF \E i \in 0..(MAX_LOG_ENTRIES - 1) : data[i].index = ERASED16
    THEN CHOOSE i \in 0..(MAX_LOG_ENTRIES - 1) :
            /\ data[i].index = ERASED16
            /\ \A j \in 0..(i - 1) : data[j].index # ERASED16
    ELSE log_index

\* an isFlashFull() that lets the last slot be written
isFlashFullAtCapacity(log_index) == log_index >= MAX_LOG_ENTRIES
\* isFlashFull()
isFlashFull(log_index) == log_index >= MAX_LOG_ENTRIES - 1

\* configureWDT(): required_wdt_cycles for a wake-up interval
WdtTimeoutSeconds(wakeup_interval) ==
    CASE wakeup_interval = 1800 -> 450
      [] wakeup_interval = 3600 -> 450
      [] OTHER -> 300

RequiredWdtCycles(wakeup_interval) ==
    CASE wakeup_interval = 600 -> 2
      [] wakeup_interval = 1800 -> 4
      [] wakeup_interval = 3600 -> 8
      [] OTHER -> 1

\* writeNewLogEntry() followed by configureWDT() and enterLowPowerMode()
NWriteAndSleep(data, log_index, wakeup_interval) ==
    /\ IF isFlashFull(log_index)
       THEN /\ currentMode' = RETRIEVAL
            /\ currentIndex' = log_index
            /\ flashData' = data
            /\ progSlot' = NoSlot
            /\ UNCHANGED << appends, lastBoot >>
       ELSE LET idx == recoverLastLogIndex(data, log_index)
            IN  \E t \in NTemperatures :
                   /\ flashData' = [data EXCEPT ![idx] =
                         [index |-> NWrite16(@.index, idx),
                          temperature |-> NWrite16(@.temperature, t)]]
                   /\ currentIndex' = idx + 1
                   /\ progSlot' = idx
                   /\ appends' = IF appends < AppendsCap THEN appends + 1 ELSE appends
                   /\ lastBoot' = 0
                   /\ UNCHANGED currentMode
    /\ wdtFlag' = NWrite16(wdtFlag, RequiredWdtCycles(wakeup_interval)) % 256
    /\ pc' = "sleep"
    /\ UNCHANGED initPage

NInit ==
    /\ pc = "reset"
    /\ flashConfig = NErasedWords
    /\ flashData = [s \in Slots |-> NErasedEntry]
    /\ wdtFlag = ERASED16 % 256
    /\ resetDog = FALSE
    /\ config = NRam
    /\ currentIndex = 0
    /\ currentMode = LOGGING
    /\ initPacket = NoPacket
    /\ initPage = 0
    /\ reply = << >>
    /\ progSlot = NoSlot
    /\ written = {}
    /\ appends = 0
    /\ implausible = FALSE
    /\ resetFrom = "off"
    /\ lastBoot = 0

NFrame == UNCHANGED << written, implausible, resetFrom >>

\* setup() after a watchdog reset: recover the index, append, sleep again
NSetupWatchdog ==
    /\ pc = "reset"
    /\ resetDog
    /\ resetDog' = FALSE
    /\ config' = [config EXCEPT !.wakeupInterval =
                     IF flashConfig.wakeupInterval = ERASED16 THEN 60
                     ELSE flashConfig.wakeupInterval]
    /\ NWriteAndSleep(flashData, recoverLastLogIndex(flashData, currentIndex),
                      config'.wakeupInterval)
    /\ reply' = << >>
    /\ UNCHANGED << flashConfig, initPacket >>
    /\ NFrame

\* setup() after any other reset, mode 'l': eraseFlashLogs(), then
\* setupLoggingMode() waits for the packet
NEraseForLogging ==
    /\ pc = "reset"
    /\ ~resetDog
    /\ flashConfig' = NErasedWords
    /\ flashData' = [s \in Slots |-> NErasedEntry]
    /\ currentMode' = LOGGING
    /\ reply' = << "READY_FOR_DATA" >>
    /\ appends' = 0
    /\ progSlot' = NoSlot
    /\ pc' = "await_packet"
    /\ initPacket' = NoPacket
    /\ UNCHANGED << wdtFlag, resetDog, config, currentIndex, initPage, lastBoot >>
    /\ NFrame

\* setupLoggingMode() once the packet line has arrived
NReceivePacket ==
    /\ pc = "await_packet"
    /\ \E packet \in NPackets, garbage \in NGarbage :
          LET field(n) == IF n <= Len(packet) THEN packet[n] ELSE garbage
              parsed == [initialTimestamp |-> StrToUL(field(1), W(0)),
                         personalId |-> NToU16(field(2)),
                         wakeupInterval |-> NToU16(field(3))]
          IN  /\ config' = parsed
              /\ IF Len(packet) = 3
                 THEN /\ flashConfig' =
                            [flashConfig EXCEPT
                               !.personalId = NWrite16(@, parsed.personalId),
                               !.wakeupInterval = NWrite16(@, parsed.wakeupInterval)]
                      /\ NWriteAndSleep(flashData, currentIndex, parsed.wakeupInterval)
                      /\ initPacket' = packet
                      /\ reply' = << "Data received and logging started." >>
                 ELSE /\ reply' = << "Failed to parse data packet." >>
                      /\ pc' = "done"
                      /\ progSlot' = NoSlot
                      /\ UNCHANGED << flashConfig, flashData, wdtFlag, currentIndex,
                                      currentMode, initPacket, appends, initPage,
                                      lastBoot >>
    /\ UNCHANGED resetDog
    /\ NFrame

\* the entry lines of retrieveLogs(): up to the first index that reads 0xFFFF
RECURSIVE NEntryLines(_, _)
NEntryLines(data, i) ==
    IF i >= MAX_LOG_ENTRIES \/ data[i].index = ERASED16 THEN << >>
    ELSE << << data[i].index, data[i].temperature >> >> \o NEntryLines(data, i + 1)

\* the globals after loadInitialTimestamp, loadPersonalID, loadWakeupInterval
NLoaded(words) ==
    [initialTimestamp |-> words.initialTimestamp,
     personalId |-> IF words.personalId = ERASED16 THEN 0 ELSE words.personalId,
     wakeupInterval |-> IF words.wakeupInterval = ERASED16 THEN 60
                        ELSE words.wakeupInterval]

retrieveLogs(cfg, data) ==
    << << "Personal ID", cfg.personalId >>,
       << "Wake-up Interval (seconds)", cfg.wakeupInterval >>,
       << "Initial Timestamp", cfg.initialTimestamp >> >>
    \o NEntryLines(data, 0)
    \o << "End of data." >>

\* setup() after any other reset, mode 'r'
NSetupRetrieve ==
    /\ pc = "reset"
    /\ ~resetDog
    /\ currentMode' = RETRIEVAL
    /\ config' = NLoaded(flashConfig)
    /\ reply' = retrieveLogs(config', flashData)
    /\ pc' = "done"
    /\ progSlot' = NoSlot
    /\ UNCHANGED << flashConfig, flashData, wdtFlag, resetDog, currentIndex, initPacket,
                    appends, initPage, lastBoot >>
    /\ NFrame

\* what every reset does to the globals
NRamInit ==
    /\ pc' = "reset"
    /\ config' = NRam
    /\ currentIndex' = 0
    /\ currentMode' = LOGGING
    /\ reply' = << >>
    /\ progSlot' = NoSlot
    /\ UNCHANGED << flashConfig, flashData, wdtFlag, initPacket, appends >>
    /\ NFrame

\* expiries the history counts before it stops
ExpiryCap == 3

\* GPREGRET after Custom_WDT_IRQHandler: loadRequiredWdtCycles() reads one
\* byte, and the uint8_t never equals 0xFFFF, so no default is taken
WdtCycleCount(count, required) ==
    IF (count + 1) % 256 >= required THEN 0 ELSE (count + 1) % 256

\* the watchdog started by configureWDT() expires: the reset follows the
\* TIMEOUT event whatever the handler does; configureWDT() enables the
\* interrupt in the NVIC only, so the handler may not run at all, and the
\* reset may or may not clear the retained register
NWatchdogReset ==
    /\ pc = "sleep"
    /\ resetDog' = TRUE
    /\ \E handled \in BOOLEAN, retained \in BOOLEAN :
          initPage' = IF ~retained THEN 0
                      ELSE IF handled THEN WdtCycleCount(initPage, wdtFlag)
                      ELSE initPage
    /\ lastBoot' = IF lastBoot < ExpiryCap THEN lastBoot + 1 ELSE lastBoot
    /\ NRamInit

\* power is removed and applied again: GPREGRET is cleared
NPowerCycle ==
    /\ pc # "reset"
    /\ resetDog' = FALSE
    /\ initPage' = 0
    /\ lastBoot' = 0
    /\ NRamInit

NvmcNext ==
    \/ NSetupWatchdog
    \/ NEraseForLogging
    \/ NReceivePacket
    \/ NSetupRetrieve
    \/ NWatchdogReset
    \/ NPowerCycle

NvmcSpec == NInit /\ [][NvmcNext]_vars

\* retrieveLogs() has printed the log
NRetrieved == pc = "reset" /\ pc' = "done"

\* C27: the initial timestamp, the interval and the id that a successful
\* initialization delivered are the ones a later retrieval prints in its
\* header, however many resets lie in between.
C27_RetrievedMetadataIsDelivered ==
    [][(NRetrieved /\ initPacket # NoPacket)
          => /\ reply'[1] = << "Personal ID", NToU16(initPacket[2]) >>
             /\ reply'[2] = << "Wake-up Interval (seconds)", NToU16(initPacket[3]) >>
             /\ reply'[3] = << "Initial Timestamp", StrToUL(initPacket[1], W(0)) >>]_vars

\* the number of leading slots that hold a plausible record: a scan that
\* stops at the first implausible slot or at capacity
RECURSIVE LeadingValid(_, _)
LeadingValid(data, i) ==
    IF i >= MAX_DATA_ENTRIES \/ ~ValidTemperature(data[i].temperature) THEN i
    ELSE LeadingValid(data, i + 1)

\* C28: the index setup() recovers is the number of valid leading records:
\* the scan stops at the first slot that fails the plausibility test, and a
\* valid slot behind an invalid one does not raise the result.
C28_ScanStopsAtFirstInvalidSlot ==
    [][Booting => currentIndex' = LeadingValid(flashData, 0)]_vars

(***************************************************************************)
(* The range test of findHighestDataIndex on its own: the slots hold       *)
(* records 0 and 1 with every pair of the temperatures below, and the scan *)
(* runs once.                                                              *)
(***************************************************************************)
\* 199.99f and -99.99f
F_199_99 == << 17223, 64881 >>
F_Minus99_99 == << 49863, 64225 >>

\* the bit patterns a slot may hold
StoredTemperatures ==
    { F_20, F_200, F_Minus100, F_199_99, F_Minus99_99,
      << 17223, 65535 >>,    \* the float just below 200.0f
      << 17224, 1 >>,        \* the float just above 200.0f
      << 49863, 65535 >>,    \* the float just above -100.0f
      << 49864, 1 >>,        \* the float just below -100.0f
      << 0, 0 >>,            \* 0.0f
      << 32768, 0 >>,        \* -0.0f
      F_Inf,
      << 65408, 0 >>,        \* -infinity
      << 32704, 0 >>,        \* a quiet NaN
      << 1, 5826 >>,         \* a denormal
      ERASED32 }

ScanInit ==
    /\ pc = "scan"
    /\ \E t0 \in StoredTemperatures, t1 \in StoredTemperatures :
          flashData = [s \in Slots |->
                          IF s = 0 THEN [index |-> W(0), temperature |-> t0]
                          ELSE IF s = 1 THEN [index |-> W(1), temperature |-> t1]
                          ELSE ErasedSlot]
    /\ flashConfig = ErasedConfig
    /\ wdtFlag = ERASED32
    /\ resetDog = FALSE
    /\ config = DefaultConfig
    /\ currentIndex = 0
    /\ currentMode = W(MODE_IDLE)
    /\ initPacket = NoPacket
    /\ initPage = 0
    /\ reply = << >>
    /\ progSlot = NoSlot
    /\ written = {}
    /\ appends = 0
    /\ implausible = FALSE
    /\ resetFrom = "off"
    /\ lastBoot = "none"

\* currentIndex = findHighestDataIndex()
ScanApply ==
    /\ pc = "scan"
    /\ currentIndex' = findHighestDataIndex(flashData)
    /\ pc' = "scanned"
    /\ UNCHANGED << flashConfig, flashData, wdtFlag, resetDog, config, currentMode,
                    initPacket, initPage, reply, progSlot, written, appends, implausible,
                    resetFrom, lastBoot >>

ScanNext == ScanApply

ScanSpec == ScanInit /\ [][ScanNext]_vars

\* the value of a float from its fields: (-1)^sign * FMantissa * 2^(FExponent - 150)
FExponent(b) == IF (b[1] % 32768) \div 128 = 0 THEN 1 ELSE (b[1] % 32768) \div 128
FMantissa(b) ==
    ((b[1] % 128) + (IF (b[1] % 32768) \div 128 = 0 THEN 0 ELSE 128)) * Half + b[2]
\* |value| < n for an integer n between 1 and 255
FMagnitudeBelow(b, n) ==
    IF FExponent(b) >= 150 THEN FALSE
    ELSE IF 150 - FExponent(b) >= 24 THEN TRUE
    ELSE FMantissa(b) < n * 2^(150 - FExponent(b))
\* the value is a number strictly between -100 and 200
StrictlyBetweenMinus100And200(b) ==
    /\ ~((b[1] % 32768) \div 128 = 255 /\ (b[1] % 128 # 0 \/ b[2] # 0))
    /\ IF b[1] >= 32768 THEN FMagnitudeBelow(b, 100) ELSE FMagnitudeBelow(b, 200)

\* C29: the scan counts a slot exactly when its temperature is a number
\* strictly between -100 and 200; -100, 200 and an erased slot are rejected,
\* -99.99 and 199.99 are accepted.
C29_SlotValidIffStrictlyInRange ==
    pc = "scanned"
       => /\ currentIndex =
                IF StrictlyBetweenMinus100And200(flashData[1].temperature) THEN 2
                ELSE IF StrictlyBetweenMinus100And200(flashData[0].temperature) THEN 1
                ELSE 0
          /\ flashData[0].temperature \in { F_200, F_Minus100, ERASED32 }
                => currentIndex # 1
          /\ flashData[1].temperature \in { F_199_99, F_Minus99_99 }
                => currentIndex = 2

\* record 0 holds 199.99 and counts, record 1 holds 200.0 and does not
C29_Witness ==
    /\ pc = "scanned"
    /\ flashData[0].temperature = F_199_99
    /\ flashData[1].temperature = F_200
    /\ currentIndex = 1

\* saveTemperatureReading returned true, and the append is one that the
\* history counts exactly
Appended == pc = "main" /\ Logging /\ progSlot' # NoSlot /\ appends' = appends + 1

\* C30: in a logging session the k-th successful append programs slot k
\* (counting from 0) and raises the index by one; a failed append leaves the
\* index as it was.
C30_AppendsInPositionOrder ==
    [][ /\ Appended => (progSlot' = appends /\ currentIndex' = currentIndex + 1)
        /\ AppendFailed => currentIndex' = currentIndex ]_vars


\* C31: a slot of the data region changes only in two ways: a record is
\* programmed onto an erased slot while the mode is Logging (so a written
\* record is never modified), or the slot is erased by the erase loop of a
\* re-initialization; nothing is erased while the device is logging.
C31_RecordsWriteOnceEraseOnlyAtInit ==
    [][\A s \in Slots :
          flashData'[s] # flashData[s]
             => \/ (Logging /\ flashData[s] = ErasedSlot /\ progSlot' = s)
                \/ (pc = "init_erase" /\ flashData'[s] = ErasedSlot)]_vars


\* saveTemperatureReading of the timer variant has programmed a record
TAppended == pc = "main" /\ pc' = "save_index"

\* C32: an append erases a page exactly when the record it writes is the
\* first one of that page, it programs a slot that is erased at that moment
\* (so the slot then holds exactly the record), and its erase destroys no
\* record written earlier in the session.
C32_AppendErasesFreshUnitOnly ==
    [][TAppended
          => LET slot == progSlot'
                 first == slot % SlotsPerPage = 0
             IN  /\ \A s \in Slots \ { slot } :
                       IF first /\ PageOf(s) = PageOf(slot)
                       THEN flashData'[s] = ErasedSlot
                       ELSE flashData'[s] = flashData[s]
                 /\ first \/ flashData[slot] = ErasedSlot
                 /\ flashData'[slot].index = config.currentDataIndex
                 /\ flashData'[slot].temperature \in Temperatures
                 /\ \A s \in ScannedSlots \ { slot } :
                       WLess(W(s), config.currentDataIndex)
                          => flashData'[s] = flashData[s]]_vars


(***************************************************************************)
(* The delay-based sketch (src/unnamed/part_000, first sketch): loop()     *)
(* samples, then sleeps with delay() until an absolute wake time kept in   *)
(* the static nextWakeTime.  millis() is an unsigned counter of ClockBits  *)
(* bits (32 on the device).  The variables hold:                           *)
(*   pc           "reset" | "loop" (top of loop) | "delay" | "idle"        *)
(*   initPage     millis()                                                 *)
(*   progSlot     nextWakeTime                                             *)
(*   wdtFlag      startMillis                                              *)
(*   flashData    the TemperatureData slots (elapsedSeconds, temperature)  *)
(*   appends      history: the time since power-on, never wrapping         *)
(*   reply        history: that time at the start of each logging pass     *)
(***************************************************************************)
\* the width of millis() and of nextWakeTime
ClockBits == 4
ClockMod == 2 ^ ClockBits
\* the factor 1000UL between config.wakeupInterval and millis()
TicksPerSecond == 2
\* the intervals a host configures, in seconds
Intervals == { 2, 3 }
\* the time setup() takes, and the time the work of one pass takes
SetupTicks == { 1, 2 }
WorkTicks == { 1, 2 }

SketchErasedSlot == [elapsedSeconds |-> ERASED32, temperature |-> ERASED32]

\* an initialized device (mode Idle, the data region erased) is powered on
SketchInit ==
    /\ pc = "reset"
    /\ \E iv \in Intervals :
          flashConfig = ConfigFromPacket(MkPacket(1700000000, iv, Dev1Id, 0))
    /\ flashData = [s \in Slots |-> SketchErasedSlot]
    /\ wdtFlag = 0
    /\ resetDog = FALSE
    /\ config = [DefaultConfig EXCEPT !.wakeupInterval = W(0)]
    /\ currentIndex = 0
    /\ currentMode = W(MODE_IDLE)
    /\ initPacket = NoPacket
    /\ initPage = 0
    /\ reply = << >>
    /\ progSlot = 0
    /\ written = {}
    /\ appends = 0
    /\ implausible = FALSE
    /\ resetFrom = "off"
    /\ lastBoot = "none"

SketchFrame == UNCHANGED << resetDog, initPacket, written, implausible, resetFrom >>

\* the scan of this sketch: every slot with a plausible temperature counts
RECURSIVE SketchScan(_, _, _)
SketchScan(data, i, highestIndex) ==
    IF i >= MAX_DATA_ENTRIES THEN highestIndex
    ELSE SketchScan(data, i + 1,
            IF ValidTemperature(data[i].temperature) THEN i + 1 ELSE highestIndex)

\* setup(): Idle with an empty log becomes Logging, startMillis = millis()
SketchSetup ==
    /\ pc = "reset"
    /\ \E t \in SetupTicks :
          /\ initPage' = t
          /\ appends' = t
          /\ wdtFlag' = t
    /\ currentIndex' = SketchScan(flashData, 0, 0)
    /\ LET loaded == flashConfig
           newMode == IF loaded.mode = W(MODE_IDLE) /\ currentIndex' = 0
                      THEN W(MODE_LOGGING)
                      ELSE IF loaded.mode = W(MODE_LOGGING) THEN W(MODE_IDLE)
                      ELSE loaded.mode
       IN  /\ config' = [loaded EXCEPT !.mode = newMode]
           /\ flashConfig' = config'
           /\ currentMode' = newMode
           /\ pc' = IF newMode = W(MODE_LOGGING) THEN "loop" ELSE "idle"
    /\ lastBoot' = "idle_to_logging"
    /\ UNCHANGED << flashData, reply, progSlot >>
    /\ SketchFrame

\* loop(), MODE_LOGGING, up to the sensors being turned off: the first pass
\* takes millis() as the wake time, the reading is stored with the elapsed
\* seconds, the work takes some time
LoopLogging ==
    /\ pc = "loop"
    /\ currentMode = W(MODE_LOGGING)
    /\ reply' = Append(reply, appends)
    /\ progSlot' = IF progSlot = 0 THEN initPage ELSE progSlot
    /\ \E work \in WorkTicks, temperature \in Temperatures :
          LET elapsedSeconds == ((initPage - wdtFlag) % ClockMod) \div TicksPerSecond
          IN  /\ initPage' = (initPage + work) % ClockMod
              /\ appends' = appends + work
              /\ IF AddressInFlash(currentIndex)
                 THEN /\ flashData' = [flashData EXCEPT ![currentIndex] =
                             [elapsedSeconds |-> WAnd(@.elapsedSeconds, W(elapsedSeconds)),
                              temperature |-> WAnd(@.temperature, temperature)]]
                      /\ currentIndex' = currentIndex + 1
                      /\ pc' = "delay"
                      /\ UNCHANGED << config, flashConfig, currentMode >>
                 ELSE /\ currentMode' = W(MODE_IDLE)
                      /\ config' = [config EXCEPT !.mode = W(MODE_IDLE)]
                      /\ flashConfig' = config'
                      /\ pc' = "idle"
                      /\ UNCHANGED << flashData, currentIndex >>
    /\ UNCHANGED << wdtFlag, lastBoot >>
    /\ SketchFrame

\* loop(), MODE_LOGGING, the end of the pass: advance nextWakeTime by the
\* interval and sleep for what is left of it
LoopDelay ==
    /\ pc = "delay"
    /\ LET nextWakeTime ==
               (progSlot + ((WNat(config.wakeupInterval) * TicksPerSecond) % ClockMod))
                  % ClockMod
           currentTime == initPage
           sleepDuration == nextWakeTime - currentTime
       IN  /\ progSlot' = nextWakeTime
           /\ IF nextWakeTime > currentTime
              THEN /\ initPage' = (initPage + sleepDuration) % ClockMod
                   /\ appends' = appends + sleepDuration
              ELSE UNCHANGED << initPage, appends >>
    /\ pc' = "loop"
    /\ UNCHANGED << flashConfig, flashData, wdtFlag, config, currentIndex, currentMode,
                    reply, lastBoot >>
    /\ SketchFrame

SketchNext ==
    \/ SketchSetup
    \/ LoopLogging
    \/ LoopDelay

SketchSpec == SketchInit /\ [][SketchNext]_vars

\* C33: with every pass working for less than the interval, the k-th pass
\* of a session starts k intervals after the first one: the sleep ends at
\* the absolute wake time, so the work time does not add to the period.
C33_SamplesOnIntervalGrid ==
    \A k \in 1..Len(reply) :
       reply[k] = reply[1] + (k - 1) * WNat(config.wakeupInterval) * TicksPerSecond


\* setup() has appended an entry after a watchdog reset
NWokeAndAppended == pc = "reset" /\ resetDog /\ progSlot' # NoSlot

\* C34: with N the cycle count configureWDT derives from the interval, N
\* watchdog timeouts make up the interval, an entry is appended after a
\* watchdog reset only when N expiries have passed since the last append,
\* and the cycle counter is below N and back at 0 when the append occurs.
C34_AppendAfterRequiredExpiries ==
    [][NWokeAndAppended
          => LET interval == config'.wakeupInterval
                 N == RequiredWdtCycles(interval)
             IN  /\ N * WdtTimeoutSeconds(interval) = interval
                 /\ lastBoot = N
                 /\ initPage < N
                 /\ initPage' = 0]_vars


(***************************************************************************)
(* The NVMC variant step by step: every nrf_nvmc call of the main path is  *)
(* three steps (__disable_irq, the call, __enable_irq), and the watchdog   *)
(* interrupt preempts the main path when it is pending and not masked.     *)
(* The variables of the NVMC variant keep their meaning, and               *)
(*   pc         the flash call the main path is at: "erase_meta",          *)
(*              "erase_log", "save_id", "save_interval", "write_entry",    *)
(*              "save_cycles"; or "reset", "await_packet", "start_wdt",    *)
(*              "sleep", "done"                                            *)
(*   resetFrom  "off" outside a flash call, "masked" after __disable_irq,  *)
(*              "programmed" after the nrf_nvmc call                       *)
(*   progSlot   the page the loop of eraseFlashLogs is at, or NoSlot       *)
(*   written    the hardware flags that are set: "PRIMASK", "RUNSTATUS"    *)
(*              (the watchdog runs), "EVENTS_TIMEOUT", "RESET_PENDING",    *)
(*              "IRQ_ACTIVE" (Custom_WDT_IRQHandler is executing)          *)
(***************************************************************************)
FlashCalls ==
    { "erase_meta", "erase_log", "save_id", "save_interval", "write_entry", "save_cycles" }

\* the pages the loop of eraseFlashLogs() erases
LogPages == PageOf(MAX_LOG_ENTRIES - 1) + 1

HandlerActive == "IRQ_ACTIVE" \in written
\* the main path executes: no handler is on top of it
MainRuns == ~HandlerActive /\ pc \notin { "sleep", "done" }

IrqFrame == UNCHANGED << implausible, lastBoot, initPacket, appends >>

\* setup() after a watchdog reset, up to writeNewLogEntry()
IrqSetupWatchdog ==
    /\ MainRuns
    /\ pc = "reset"
    /\ resetDog
    /\ resetDog' = FALSE
    /\ currentIndex' = recoverLastLogIndex(flashData, currentIndex)
    /\ config' = [config EXCEPT !.wakeupInterval =
                     IF flashConfig.wakeupInterval = ERASED16 THEN 60
                     ELSE flashConfig.wakeupInterval]
    /\ pc' = "write_entry"
    /\ UNCHANGED << flashConfig, flashData, wdtFlag, currentMode, initPage, reply,
                    progSlot, written, resetFrom >>
    /\ IrqFrame

\* setup() after any other reset: 'l' starts eraseFlashLogs(), 'r' prints
IrqSetupMenu ==
    /\ MainRuns
    /\ pc = "reset"
    /\ ~resetDog
    /\ \/ /\ pc' = "erase_meta"
          /\ UNCHANGED << currentMode, config, reply >>
       \/ /\ currentMode' = RETRIEVAL
          /\ config' = NLoaded(flashConfig)
          /\ reply' = retrieveLogs(config', flashData)
          /\ pc' = "done"
    /\ UNCHANGED << flashConfig, flashData, wdtFlag, resetDog, currentIndex, initPage,
                    progSlot, written, resetFrom >>
    /\ IrqFrame

\* __disable_irq() in front of an nrf_nvmc call; writeNewLogEntry() returns
\* before it when the flash is full
DisableIrq ==
    /\ MainRuns
    /\ pc \in FlashCalls
    /\ resetFrom = "off"
    /\ IF pc = "write_entry" /\ isFlashFull(currentIndex)
       THEN /\ currentMode' = RETRIEVAL
            /\ pc' = "save_cycles"
            /\ UNCHANGED << written, resetFrom >>
       ELSE /\ written' = written \cup { "PRIMASK" }
            /\ resetFrom' = "masked"
            /\ UNCHANGED << currentMode, pc >>
    /\ UNCHANGED << flashConfig, flashData, wdtFlag, resetDog, config, currentIndex,
                    initPage, reply, progSlot >>
    /\ IrqFrame

\* the nrf_nvmc_page_erase or nrf_nvmc_write_words call at pc
NvmcCall ==
    /\ MainRuns
    /\ pc \in FlashCalls
    /\ resetFrom = "masked"
    /\ resetFrom' = "programmed"
    /\ flashConfig' =
          CASE pc = "erase_meta" -> NErasedWords
            [] pc = "save_id" ->
                  [flashConfig EXCEPT !.personalId = NWrite16(@, config.personalId)]
            [] pc = "save_interval" ->
                  [flashConfig EXCEPT !.wakeupInterval = NWrite16(@, config.wakeupInterval)]
            [] OTHER -> flashConfig
    /\ wdtFlag' = IF pc = "save_cycles"
                  THEN NWrite16(wdtFlag, RequiredWdtCycles(config.wakeupInterval)) % 256
                  ELSE wdtFlag
    /\ IF pc = "write_entry"
       THEN LET idx == recoverLastLogIndex(flashData, currentIndex)
            IN  \E t \in NTemperatures :
                   /\ flashData' = [flashData EXCEPT ![idx] =
                         [index |-> NWrite16(@.index, idx),
                          temperature |-> NWrite16(@.temperature, t)]]
                   /\ currentIndex' = idx
       ELSE /\ flashData' = IF pc = "erase_log"
                            THEN [sl \in Slots |-> IF PageOf(sl) = progSlot
                                                   THEN NErasedEntry ELSE flashData[sl]]
                            ELSE flashData
            /\ UNCHANGED currentIndex
    /\ UNCHANGED << pc, resetDog, config, currentMode, initPage, reply, progSlot, written >>
    /\ IrqFrame

\* __enable_irq() behind the call, and on to the next flash call
EnableIrq ==
    /\ MainRuns
    /\ pc \in FlashCalls
    /\ resetFrom = "programmed"
    /\ resetFrom' = "off"
    /\ written' = written \ { "PRIMASK" }
    /\ progSlot' = CASE pc = "erase_meta" -> 0
                     [] pc = "erase_log" /\ progSlot + 1 < LogPages -> progSlot + 1
                     [] OTHER -> NoSlot
    /\ pc' = CASE pc = "erase_meta" -> "erase_log"
               [] pc = "erase_log" ->
                     IF progSlot + 1 < LogPages THEN "erase_log" ELSE "await_packet"
               [] pc = "save_id" -> "save_interval"
               [] pc = "save_interval" -> "write_entry"
               [] pc = "write_entry" -> "save_cycles"
               [] OTHER -> "start_wdt"
    /\ currentIndex' = IF pc = "write_entry" THEN currentIndex + 1 ELSE currentIndex
    /\ currentMode' = IF pc = "erase_log" /\ pc' = "await_packet" THEN LOGGING
                      ELSE currentMode
    /\ UNCHANGED << flashConfig, flashData, wdtFlag, resetDog, config, initPage, reply >>
    /\ IrqFrame

\* setupLoggingMode() once the packet line has arrived, up to savePersonalID()
IrqReceivePacket ==
    /\ MainRuns
    /\ pc = "await_packet"
    /\ \E packet \in NPackets, garbage \in NGarbage :
          LET field(n) == IF n <= Len(packet) THEN packet[n] ELSE garbage
          IN  /\ config' = [initialTimestamp |-> StrToUL(field(1), W(0)),
                            personalId |-> NToU16(field(2)),
                            wakeupInterval |-> NToU16(field(3))]
              /\ pc' = IF Len(packet) = 3 THEN "save_id" ELSE "done"
    /\ UNCHANGED << flashConfig, flashData, wdtFlag, resetDog, currentIndex, currentMode,
                    initPage, reply, progSlot, written, resetFrom >>
    /\ IrqFrame

\* configureWDT() from TASKS_START on, then enterLowPowerMode() and loop()
StartWdt ==
    /\ MainRuns
    /\ pc = "start_wdt"
    /\ written' = written \cup { "RUNSTATUS" }
    /\ pc' = "sleep"
    /\ UNCHANGED << flashConfig, flashData, wdtFlag, resetDog, config, currentIndex,
                    currentMode, initPage, reply, progSlot, resetFrom >>
    /\ IrqFrame

\* the running watchdog times out: the event is raised, the reset follows
WdtTimeout ==
    /\ "RUNSTATUS" \in written
    /\ "RESET_PENDING" \notin written
    /\ written' = written \cup { "EVENTS_TIMEOUT", "RESET_PENDING" }
    /\ UNCHANGED << pc, flashConfig, flashData, wdtFlag, resetDog, config, currentIndex,
                    currentMode, initPage, reply, progSlot, resetFrom >>
    /\ IrqFrame

\* the watchdog interrupt is pending and not masked
InterruptTaken == "EVENTS_TIMEOUT" \in written /\ "PRIMASK" \notin written

\* Custom_WDT_IRQHandler is entered on top of whatever the main path does
HandlerEnter ==
    /\ InterruptTaken
    /\ ~HandlerActive
    /\ written' = written \cup { "IRQ_ACTIVE" }
    /\ UNCHANGED << pc, flashConfig, flashData, wdtFlag, resetDog, config, currentIndex,
                    currentMode, initPage, reply, progSlot, resetFrom >>
    /\ IrqFrame

\* Custom_WDT_IRQHandler: clear the event, count the cycle; it returns when
\* the count is complete and stays in enterLowPowerMode() otherwise
HandlerRun ==
    /\ HandlerActive
    /\ "EVENTS_TIMEOUT" \in written
    /\ initPage' = WdtCycleCount(initPage, wdtFlag)
    /\ written' = IF initPage' = 0
                  THEN written \ { "EVENTS_TIMEOUT", "IRQ_ACTIVE" }
                  ELSE written \ { "EVENTS_TIMEOUT" }
    /\ UNCHANGED << pc, flashConfig, flashData, wdtFlag, resetDog, config, currentIndex,
                    currentMode, reply, progSlot, resetFrom >>
    /\ IrqFrame

\* what a reset does to the processor and to the globals
IrqRamInit ==
    /\ pc' = "reset"
    /\ resetFrom' = "off"
    /\ config' = NRam
    /\ currentIndex' = 0
    /\ currentMode' = LOGGING
    /\ reply' = << >>
    /\ progSlot' = NoSlot
    /\ UNCHANGED << flashConfig, flashData, wdtFlag >>
    /\ IrqFrame

\* a watchdog reset that leaves the watchdog running
IrqWatchdogResetKeepsWdt ==
    /\ "RESET_PENDING" \in written
    /\ written' = { "RUNSTATUS" }
    /\ resetDog' = TRUE
    /\ \E retained \in BOOLEAN : initPage' = IF retained THEN initPage ELSE 0
    /\ IrqRamInit

\* the watchdog reset: it stops the watchdog until configureWDT() starts it
IrqWatchdogReset ==
    /\ "RESET_PENDING" \in written
    /\ written' = {}
    /\ resetDog' = TRUE
    /\ \E retained \in BOOLEAN : initPage' = IF retained THEN initPage ELSE 0
    /\ IrqRamInit

\* power is removed and applied again
IrqPowerCycle ==
    /\ pc # "reset"
    /\ written' = {}
    /\ resetDog' = FALSE
    /\ initPage' = 0
    /\ IrqRamInit

IrqNext ==
    \/ IrqSetupWatchdog
    \/ IrqSetupMenu
    \/ DisableIrq
    \/ NvmcCall
    \/ EnableIrq
    \/ IrqReceivePacket
    \/ StartWdt
    \/ WdtTimeout
    \/ HandlerEnter
    \/ HandlerRun
    \/ IrqWatchdogReset
    \/ IrqPowerCycle

IrqSpec == NInit /\ [][IrqNext]_vars

\* C35: Custom_WDT_IRQHandler never executes while a flash erase or program
\* of the log store is in progress: from __disable_irq to __enable_irq the
\* interrupts are masked, and the handler is active only while the main
\* path sleeps, so handler steps and erase or append steps do not interleave.
C35_HandlerNeverInsideFlashCall ==
    /\ resetFrom # "off" => ("PRIMASK" \in written /\ ~HandlerActive)
    /\ HandlerActive => (pc = "sleep" /\ resetFrom = "off")

\* the handler is executing over a log that holds an entry
C35_Witness ==
    /\ HandlerActive
    /\ flashData[0] # NErasedEntry
    /\ pc = "sleep"


\* a reset strikes
ResetStrikes == pc # "reset" /\ pc' = "reset"

\* C36: from a device that is Idle with a recovered index above 0, and
\* until an initialization has succeeded, nothing changes the records, a
\* reset of any cause leaves flash such that the next boot recovers the same
\* index, and that boot ends Idle with the records untouched.
C36_IdleWithDataSurvivesReboots ==
    /\ [][(pc = "main" /\ Idle /\ currentIndex > 0) => flashData' = flashData]_vars
    /\ [][(ResetStrikes /\ Idle /\ currentIndex > 0 /\ pc \in { "main", "init_erase" })
             => /\ findHighestDataIndex(flashData') = currentIndex
                /\ flashConfig'.mode # W(MODE_LOGGING)]_vars
    /\ [][(Booting /\ findHighestDataIndex(flashData) > 0
                   /\ flashConfig.mode # W(MODE_LOGGING))
             => /\ Idle'
                /\ currentIndex' = findHighestDataIndex(flashData)
                /\ flashData' = flashData]_vars


\* C37: the planned-reset marker takes the value RESET_FLAG_VALUE only in
\* enterSleep, in Logging mode, on the step that arms the watchdog; a boot
\* that finds the marker set leaves it cleared; and a boot classifies its
\* reset as planned only when that reset struck inside the sleep that a new
\* enterSleep started
C37_MarkerAuthorizesOneResume ==
    /\ [][(wdtFlag' = RESET_FLAG_VALUE /\ wdtFlag # RESET_FLAG_VALUE)
            => (pc = "sleep_entry" /\ Logging /\ pc' = "sleep")]_vars
    /\ [][(Booting /\ wdtFlag = RESET_FLAG_VALUE)
            => wdtFlag' # RESET_FLAG_VALUE]_vars
    /\ [][(Booting /\ lastBoot' = "planned")
            => (resetFrom = "sleep" /\ PlannedReset)]_vars

\* a planned reset was taken, its marker was cleared, and logging continues
C37_Witness ==
    /\ pc = "main"
    /\ lastBoot = "planned"
    /\ resetFrom = "sleep"
    /\ wdtFlag = ERASED32
    /\ Logging
    /\ appends > 0


\* the records present in the data region
ProgrammedRecords == Cardinality({ s \in Slots : flashData[s] # ErasedSlot })

\* C38: in the timer variant the currentDataIndex stored in a valid config
\* record never exceeds the number of records programmed in the data region
\* and is at most one behind it, in every state, also between the program of
\* a record and the saveConfig() that follows it
C38_StoredIndexLagsByAtMostOne ==
    flashConfig.magicNumber = MAGIC =>
        /\ WGeq(W(ProgrammedRecords), flashConfig.currentDataIndex)
        /\ \/ flashConfig.currentDataIndex = W(ProgrammedRecords)
           \/ WInc(flashConfig.currentDataIndex) = W(ProgrammedRecords)


\* C39: in the NVMC variant, whenever the watchdog runs, the required cycle
\* count the expiry handler reads back from flash equals the count
\* configureWDT computed for the current wake-up interval, also after a
\* re-initialization with another interval
C39_StoredCyclesMatchInterval ==
    pc = "sleep" => wdtFlag = RequiredWdtCycles(config.wakeupInterval)


\* the number of leading slots of the log whose index word is written
NLeadingWritten(data) ==
    Cardinality({ i \in 0..(MAX_LOG_ENTRIES - 1) :
                    \A j \in 0..i : data[j].index # ERASED16 })

\* setup() runs after a watchdog reset
NWakes == pc = "reset" /\ resetDog /\ pc' = "sleep"

\* C40: in the NVMC variant log_index never exceeds MAX_LOG_ENTRIES - 1 and
\* the last slot of the log stays erased; so on every wake after a watchdog
\* reset recoverLastLogIndex() finds an erased slot and log_index becomes the
\* number of leading written records: the append goes to that slot, or, when
\* the log is full, nothing is written and log_index keeps that number
C40_LastSlotErasedIndexRecovered ==
    /\ [](currentIndex <= MAX_LOG_ENTRIES - 1)
    /\ [](flashData[MAX_LOG_ENTRIES - 1] = NErasedEntry)
    /\ [][NWakes =>
            LET n == NLeadingWritten(flashData)
            IN  /\ flashData[n].index = ERASED16
                /\ IF isFlashFull(n)
                   THEN currentIndex' = n /\ flashData' = flashData
                   ELSE /\ progSlot' = n
                        /\ currentIndex' = n + 1
                        /\ flashData'[n].index = n
                        /\ \A s \in Slots \ {n} : flashData'[s] = flashData[s]]_vars

\* the log is full: the wake found MAX_LOG_ENTRIES - 1 records, wrote nothing
\* and left the last slot erased
C40_Witness ==
    /\ pc = "sleep"
    /\ currentMode = RETRIEVAL
    /\ currentIndex = MAX_LOG_ENTRIES - 1
    /\ NLeadingWritten(flashData) = MAX_LOG_ENTRIES - 1
    /\ flashData[MAX_LOG_ENTRIES - 1] = NErasedEntry
    /\ progSlot = NoSlot

====
